---- MODULE Spec2Model ----
(***************************************************************************)
(* A model of the CHIP-8 virtual machine of this repository: the opcode    *)
(* decoder (opcodes.rs), the execution engine (cpu.rs), the memory mapper  *)
(* (memory.rs), the video memory (display.rs), the input buffer            *)
(* (input/mod.rs, input/windows.rs) and the timers (timers.rs).            *)
(*                                                                         *)
(* Word is an 8-bit and Address a 16-bit wrapping integer (core.rs); they  *)
(* are modelled as naturals below 256 and 65536 with explicit reduction.   *)
(***************************************************************************)
EXTENDS Integers, Sequences, FiniteSets, TLC

VARIABLES
    values,             \* Registers.values: [0..15 -> Word]
    program_counter,    \* Registers.program_counter
    address,            \* Registers.address (the index register)
    stack,              \* CPU.stack: Seq(Address)
    banks,              \* MemoryMapper.banks: Seq(bank)
    vram,               \* VideoMemory.data, as the set of <<byte_index, bit_offset>> that are 1
    listeners,          \* VideoMemory.listeners: id -> listener
    next_listener_id,   \* VideoMemory.next_listener_id
    keys,               \* InputBuffer.keys: [0..15 -> KeyState]
    delay_timer,        \* Timers.delay_timer
    sound_timer,        \* Timers.sound_timer
    delay_accumulator,  \* Timers.delay_accumulator, in nanoseconds
    last,               \* the last call made on the machine and what it returned
    dec_word,           \* the argument handed to Opcode::decode
    dec_out             \* what Opcode::decode returned for dec_word

vars == <<values, program_counter, address, stack, banks, vram, listeners,
          next_listener_id, keys, delay_timer, sound_timer, delay_accumulator,
          last, dec_word, dec_out>>

cpuVars == <<values, program_counter, address, stack>>
videoVars == <<vram, listeners, next_listener_id>>
timerVars == <<delay_timer, sound_timer, delay_accumulator>>
decVars == <<dec_word, dec_out>>

(***************************************************************************)
(* core.rs: Word, Address, Error, Result                                   *)
(***************************************************************************)
WordMod == 256
AddressMod == 65536

Word == 0 .. (WordMod - 1)
Address == 0 .. (AddressMod - 1)

\* Word::new / From<u8>: the value is kept modulo 2^8
WordNew(x) == x % WordMod

\* Address::new / From<u16>, From<usize>, From<i32>: the value is kept modulo 2^16
AddressNew(x) == x % AddressMod

\* impl Add for Word (Wrapping<u8>)
WordAdd(a, b) == (a + b) % WordMod

\* impl Sub for Word (Wrapping<u8>)
WordSub(a, b) == (a - b + WordMod) % WordMod

\* impl Add for Address (Wrapping<u16>)
AddressAdd(a, b) == (a + b) % AddressMod

\* impl Sub for Address (Wrapping<u16>)
AddressSub(a, b) == (a - b + AddressMod) % AddressMod

RECURSIVE BitAnd(_, _)
\* impl BitAnd for Word, and the primitive & of u16
BitAnd(a, b) ==
    IF a = 0 \/ b = 0 THEN 0
    ELSE 2 * BitAnd(a \div 2, b \div 2) + (IF a % 2 = 1 /\ b % 2 = 1 THEN 1 ELSE 0)

RECURSIVE BitOr(_, _)
\* impl BitOr for Word
BitOr(a, b) ==
    IF a = 0 THEN b
    ELSE IF b = 0 THEN a
    ELSE 2 * BitOr(a \div 2, b \div 2) + (IF a % 2 = 1 \/ b % 2 = 1 THEN 1 ELSE 0)

RECURSIVE BitXor(_, _)
\* impl BitXor for Word
BitXor(a, b) ==
    IF a = 0 THEN b
    ELSE IF b = 0 THEN a
    ELSE 2 * BitXor(a \div 2, b \div 2) + (IF a % 2 # b % 2 THEN 1 ELSE 0)

RECURSIVE Pow2(_)
Pow2(n) == IF n = 0 THEN 1 ELSE 2 * Pow2(n - 1)

\* the primitive >> of u16 and u8
Shr(a, n) == a \div Pow2(n)

\* Word >> n: the operator is used by cpu.rs and absent from core.rs
WordShr(a, n) == a \div Pow2(n)

\* Word << n, wrapping to 8 bits: used by cpu.rs and absent from core.rs
WordShl(a, n) == (a * Pow2(n)) % WordMod

\* Error::new / Error::new_str: a message (with the values formatted into it) and no cause
Error(message, args) == [message |-> message, args |-> args, cause |-> <<>>]

\* Error::chain: a new message whose cause is the error it wraps
Chain(e, message, args) == [message |-> message, args |-> args, cause |-> <<e>>]

NoError == [message |-> "", args |-> <<>>, cause |-> <<>>]

(***************************************************************************)
(* opcodes.rs: Opcode, OpcodeParam, Condition, Operation, decode           *)
(***************************************************************************)
Register(i) == [kind |-> "Register", v |-> i]
Immediate(x) == [kind |-> "Immediate", v |-> x]

NoOpcode == [op |-> "None"]

\* ResultChip8<Opcode>: Ok(opcode), Err(error), or the panic!() of a match arm
DecOk(opcode) == [tag |-> "Ok", opcode |-> opcode, error |-> NoError]
DecErr(e) == [tag |-> "Err", opcode |-> NoOpcode, error |-> e]
DecPanic == [tag |-> "Panic", opcode |-> NoOpcode, error |-> NoError]

\* Condition::evaluate
CondEvaluate(cond, a, b) ==
    IF cond = "Equal" THEN a = b ELSE a # b

\* Option<T>: None, Some(x)
None == <<>>
Some(x) == <<x>>

\* Operation::evaluate with the subtractions' overflow flag passed on as it comes
evaluate_borrow(op, lhs, rhs) ==
    CASE op = "None" -> [result |-> rhs, carry |-> None]
      [] op = "Or" -> [result |-> BitOr(rhs, lhs), carry |-> None]
      [] op = "And" -> [result |-> BitAnd(rhs, lhs), carry |-> None]
      [] op = "Xor" -> [result |-> BitXor(rhs, lhs), carry |-> None]
      [] op = "Add" ->
            [result |-> (lhs + rhs) % WordMod, carry |-> Some(lhs + rhs >= WordMod)]
      [] op = "Sub" ->
            [result |-> (lhs - rhs + WordMod) % WordMod, carry |-> Some(lhs < rhs)]
      [] op = "ReverseSub" ->
            [result |-> (rhs - lhs + WordMod) % WordMod, carry |-> Some(rhs < lhs)]

\* Operation::evaluate: the result and the optional carry
evaluate(op, lhs, rhs) ==
    CASE op = "None" -> [result |-> rhs, carry |-> None]
      [] op = "Or" -> [result |-> BitOr(rhs, lhs), carry |-> None]
      [] op = "And" -> [result |-> BitAnd(rhs, lhs), carry |-> None]
      [] op = "Xor" -> [result |-> BitXor(rhs, lhs), carry |-> None]
      [] op = "Add" ->
            \* u8::overflowing_add
            [result |-> (lhs + rhs) % WordMod, carry |-> Some(lhs + rhs >= WordMod)]
      [] op = "Sub" ->
            \* u8::overflowing_sub, the overflow flag negated
            [result |-> (lhs - rhs + WordMod) % WordMod, carry |-> Some(~(lhs < rhs))]
      [] op = "ReverseSub" ->
            [result |-> (rhs - lhs + WordMod) % WordMod, carry |-> Some(~(rhs < lhs))]

first_nibble_of(value) == Shr(BitAnd(value, \hF000), 12)

\* decode, first nibble in [0x0, 0x1, 0x2, 0xA, 0xB]
decode_addr(value) ==
    LET first_nibble == first_nibble_of(value)
        addr == AddressNew(BitAnd(value, \h0FFF))
    IN CASE first_nibble = 0 -> DecOk([op |-> "CallNative", addr |-> addr])
         [] first_nibble = 1 -> DecOk([op |-> "Jump", addr |-> addr])
         [] first_nibble = 2 -> DecOk([op |-> "Call", addr |-> addr])
         [] first_nibble = 10 -> DecOk([op |-> "AssignAddress", addr |-> addr])
         [] first_nibble = 11 -> DecOk([op |-> "OffsetJump", addr |-> addr])
         [] OTHER -> DecPanic

\* decode, first nibble in [0x3, 0x4, 0x5, 0x9]
decode_cond(value) ==
    LET first_nibble == first_nibble_of(value)
        reg == Shr(BitAnd(value, \h0F00), 8)
    IN DecOk([op |-> "CondJump",
              left |-> Register(reg),
              right |-> IF first_nibble \in {3, 4}
                        THEN Immediate(WordNew(BitAnd(value, \h00FF)))
                        ELSE Register(Shr(BitAnd(value, \h00F0), 8)),
              cond |-> IF first_nibble \in {3, 5} THEN "Equal" ELSE "NotEqual"])

\* decode, first nibble in [0x6, 0x7]
decode_imm(value) ==
    LET first_nibble == first_nibble_of(value)
        reg == Shr(BitAnd(value, \h0F00), 8)
        immediate == BitAnd(value, \h00FF)
    IN CASE first_nibble = 6 ->
              DecOk([op |-> "Assign", left_reg |-> reg,
                     right |-> Immediate(WordNew(immediate)), operation |-> "None"])
         [] first_nibble = 7 ->
              DecOk([op |-> "Assign", left_reg |-> reg,
                     right |-> Immediate(WordNew(immediate)), operation |-> "Add"])
         [] OTHER -> DecPanic

\* decode_8 taking the second register with the shift of the first
decode_8_reg2(value) ==
    LET last_nibble == BitAnd(value, \h000F)
        reg1 == Shr(BitAnd(value, \h0F00), 8)
        reg2 == Shr(BitAnd(value, \h00F0), 8)
    IN IF last_nibble = 6 \/ last_nibble = 14
       THEN DecOk([op |-> "Shift", reg |-> reg1, right |-> (last_nibble = 6)])
       ELSE IF last_nibble > 7
       THEN DecErr(Error("Last nibble invalid in opcode", <<value>>))
       ELSE DecOk([op |-> "Assign", left_reg |-> reg1, right |-> Register(reg2),
                   operation |-> CASE last_nibble = 0 -> "None"
                                   [] last_nibble = 1 -> "Or"
                                   [] last_nibble = 2 -> "And"
                                   [] last_nibble = 3 -> "Xor"
                                   [] last_nibble = 4 -> "Add"
                                   [] last_nibble = 5 -> "Sub"
                                   [] last_nibble = 7 -> "ReverseSub"])

\* decode, first nibble 0x8
decode_8(value) ==
    LET last_nibble == BitAnd(value, \h000F)
        reg1 == Shr(BitAnd(value, \h0F00), 8)
        reg2 == Shr(BitAnd(value, \h00F0), 4)
    IN IF last_nibble = 6 \/ last_nibble = 14
       THEN DecOk([op |-> "Shift", reg |-> reg1, right |-> (last_nibble = 6)])
       ELSE IF last_nibble > 7
       THEN DecErr(Error("Last nibble invalid in opcode", <<value>>))
       ELSE CASE last_nibble \in {0, 1, 2, 3, 4, 5, 7} ->
                   DecOk([op |-> "Assign", left_reg |-> reg1, right |-> Register(reg2),
                          operation |-> CASE last_nibble = 0 -> "None"
                                          [] last_nibble = 1 -> "Or"
                                          [] last_nibble = 2 -> "And"
                                          [] last_nibble = 3 -> "Xor"
                                          [] last_nibble = 4 -> "Add"
                                          [] last_nibble = 5 -> "Sub"
                                          [] last_nibble = 7 -> "ReverseSub"])
              [] OTHER -> DecPanic

\* decode, first nibble 0xC
decode_C(value) ==
    DecOk([op |-> "Random", reg |-> Shr(BitAnd(value, \h0F00), 8),
           mask |-> WordNew(BitAnd(value, \h00FF))])

\* decode, first nibble 0xD
decode_D(value) ==
    DecOk([op |-> "Draw", x |-> Shr(BitAnd(value, \h0F00), 8),
           y |-> Shr(BitAnd(value, \h00F0), 4), height |-> BitAnd(value, \h000F)])

\* decode_E without the check of the last byte
decode_E_unchecked(value) ==
    LET reg == Shr(BitAnd(value, \h0F00), 8)
        last_byte == BitAnd(value, \h00FF)
    IN CASE last_byte = \h9E -> DecOk([op |-> "CondKeyJump", reg |-> reg, cond |-> "Equal"])
         [] last_byte = \hA1 -> DecOk([op |-> "CondKeyJump", reg |-> reg, cond |-> "NotEqual"])
         [] OTHER -> DecPanic

\* decode, first nibble 0xE
decode_E(value) ==
    LET reg == Shr(BitAnd(value, \h0F00), 8)
        last_byte == BitAnd(value, \h00FF)
    IN IF last_byte # \h9E /\ last_byte # \hA1
       THEN DecErr(Error("Last byte invalid in opcode", <<value>>))
       ELSE CASE last_byte = \h9E -> DecOk([op |-> "CondKeyJump", reg |-> reg, cond |-> "Equal"])
              [] last_byte = \hA1 -> DecOk([op |-> "CondKeyJump", reg |-> reg, cond |-> "NotEqual"])
              [] OTHER -> DecPanic

\* decode, first nibble 0xF
decode_F(value) ==
    LET reg == Shr(BitAnd(value, \h0F00), 8)
        last_byte == BitAnd(value, \h00FF)
    IN CASE last_byte = \h07 -> DecOk([op |-> "GetDelayTimer", reg |-> reg])
         [] last_byte = \h0A -> DecOk([op |-> "BlockOnKey", reg |-> reg])
         [] last_byte = \h15 -> DecOk([op |-> "SetTimer", reg |-> reg, timer |-> "Delay"])
         [] last_byte = \h18 -> DecOk([op |-> "SetTimer", reg |-> reg, timer |-> "Sound"])
         [] last_byte = \h1E -> DecOk([op |-> "AddAddress", reg |-> reg])
         [] last_byte = \h29 -> DecOk([op |-> "GetCharacterAddress", reg |-> reg])
         [] last_byte = \h33 -> DecOk([op |-> "WriteBCD", reg |-> reg])
         [] last_byte = \h55 -> DecOk([op |-> "DumpValueRegisters", reg |-> reg])
         [] last_byte = \h65 -> DecOk([op |-> "LoadValueRegisters", reg |-> reg])
         [] OTHER -> DecErr(Error("Last byte invalid in opcode", <<value>>))

\* Opcode::decode
decode(value) ==
    LET first_nibble == first_nibble_of(value)
    IN IF value = \h0000 THEN DecOk([op |-> "Nop"])
       ELSE IF value = \h00E0 THEN DecOk([op |-> "ClearScreen"])
       ELSE IF value = \h00EE THEN DecOk([op |-> "Return"])
       ELSE IF first_nibble \in {0, 1, 2, 10, 11} THEN decode_addr(value)
       ELSE IF first_nibble \in {3, 4, 5, 9} THEN decode_cond(value)
       ELSE IF first_nibble \in {6, 7} THEN decode_imm(value)
       ELSE IF first_nibble = 8 THEN decode_8(value)
       ELSE IF first_nibble = 12 THEN decode_C(value)
       ELSE IF first_nibble = 13 THEN decode_D(value)
       ELSE IF first_nibble = 14 THEN decode_E(value)
       ELSE IF first_nibble = 15 THEN decode_F(value)
       ELSE DecErr(Error("Invalid opcode", <<value>>))

\* Opcode::decode_bytes: u16::from_be_bytes of the two bytes, then decode
decode_bytes(b0, b1) == decode(b0 * 256 + b1)

(***************************************************************************)
(* memory.rs: MemoryRange, ByteArrayMemory, the wrappers, MemoryMapper     *)
(***************************************************************************)
\* ResultChip8<T>: Ok(v) or Err(error); "Panic" is a panic!() unwinding out of the call,
\* "Hang" a call that never returns
Ok(v) == [tag |-> "Ok", v |-> v, error |-> NoError]
Err(e) == [tag |-> "Err", v |-> 0, error |-> e]
Panic == [tag |-> "Panic", v |-> 0, error |-> NoError]
Hang == [tag |-> "Hang", v |-> 0, error |-> NoError]

\* MemoryRange::new: the inclusive range [min, max]; panics when min > max
MemoryRangeNew(min, max) ==
    IF min > max THEN Panic ELSE Ok([min |-> min, max |-> max])

\* MemoryRange::new_len: new(start, start + len), the sum wrapping to 16 bits
MemoryRangeNewLen(start, len) == MemoryRangeNew(start, AddressAdd(start, len))

\* MemoryRange::contains
contains(range, addr) == range.min <= addr /\ range.max >= addr

\* overlaps with exclusive comparisons: ranges that share only an end point pass
overlaps_exclusive(self, other) == self.min < other.max /\ other.min < self.max

\* MemoryRange::overlaps
overlaps(self, other) == self.min <= other.max /\ other.min <= self.max

\* ByteArrayMemory::zero: size zero words (a cell absent from cells holds zero)
ByteArrayZero(size) == [len |-> size, cells |-> <<>>]

\* ByteArrayMemory::new: a copy of data
ByteArrayNew(data) == [len |-> Len(data), cells |-> [o \in 0 .. (Len(data) - 1) |-> data[o + 1]]]

make_bounds_error(addr) ==
    Error("Address is outside the range of the byte array with length", <<addr>>)

\* impl ReadMemory for ByteArrayMemory
ByteArrayGet(mem, addr) ==
    IF addr < mem.len
    THEN Ok(IF addr \in DOMAIN mem.cells THEN mem.cells[addr] ELSE 0)
    ELSE Err(make_bounds_error(addr))

\* impl WriteMemory for ByteArrayMemory: the memory after the write, or the error
ByteArraySet(mem, addr, value) ==
    IF addr < mem.len
    THEN Ok([mem EXCEPT !.cells = (addr :> value) @@ mem.cells])
    ELSE Err(make_bounds_error(addr))

\* A delegate is a ByteArrayMemory, bare ("rw") or inside a ReadMemoryWrapper ("r")
\* or a WriteMemoryWrapper ("w")
DelegateGet(bank, addr) ==
    IF bank.kind = "w"
    THEN Err(Error("Read not supported for this memory", <<>>))
    ELSE ByteArrayGet(bank.mem, addr)

\* the wrappers' set writing through whatever the kind of the bank
DelegateSet_writable(bank, addr, value) == ByteArraySet(bank.mem, addr, value)

DelegateSet(bank, addr, value) ==
    IF bank.kind = "r"
    THEN Err(Error("Write not supported for this memory", <<>>))
    ELSE ByteArraySet(bank.mem, addr, value)

\* the offset being the address itself
offset_absolute(bank, addr) == addr

\* MemoryMapperBank::offset
offset(bank, addr) == AddressSub(addr, bank.range.min)

\* impl Display for MemoryMapperBank: the name and the range
BankDisplay(bank) == <<bank.name, bank.range.min, bank.range.max>>

\* find falling back on the first bank when no range contains the address
FindBank_fallback(bs, addr) ==
    LET hits == {i \in 1 .. Len(bs) : contains(bs[i].range, addr)}
    IN IF hits = {} THEN (IF bs = <<>> THEN 0 ELSE 1)
       ELSE CHOOSE i \in hits : \A j \in hits : i <= j

\* banks.iter().find(|x| x.range.contains(addr)): the index of the first such bank, or 0
FindBank(bs, addr) ==
    LET hits == {i \in 1 .. Len(bs) : contains(bs[i].range, addr)}
    IN IF hits = {} THEN 0 ELSE CHOOSE i \in hits : \A j \in hits : i <= j

\* MemoryMapper::add: the banks after the call, or the error naming the overlapping banks
MapperAdd(bs, kind, mem, range, name) ==
    LET overlapping == SelectSeq(bs, LAMBDA x : overlaps(x.range, range))
    IN IF overlapping # <<>>
       THEN Err(Error("Bank would overlap with",
                      [i \in 1 .. Len(overlapping) |-> BankDisplay(overlapping[i])]))
       ELSE Ok(Append(bs, [name |-> name, range |-> range, kind |-> kind, mem |-> mem]))

\* impl ReadMemory for MemoryMapper
MapperGet(bs, addr) ==
    LET i == FindBank(bs, addr)
    IN IF i = 0
       THEN Err(Error("No bank mapped to address", <<addr>>))
       ELSE LET r == DelegateGet(bs[i], offset(bs[i], addr))
            IN IF r.tag = "Err"
               THEN Err(Chain(r.error, "Unable to read address from bank",
                              <<addr, BankDisplay(bs[i])>>))
               ELSE r

\* impl WriteMemory for MemoryMapper: the banks after the write, or the error
MapperSet(bs, addr, value) ==
    LET i == FindBank(bs, addr)
    IN IF i = 0
       THEN Err(Error("No bank mapped to address", <<addr>>))
       ELSE LET r == DelegateSet(bs[i], offset(bs[i], addr), value)
            IN IF r.tag = "Err"
               THEN Err(Chain(r.error, "Unable to write to address in bank",
                              <<addr, BankDisplay(bs[i])>>))
               ELSE Ok([bs EXCEPT ![i].mem = r.v])

RECURSIVE GetRangeFrom(_, _, _, _, _)
\* MemoryRangeIterator::next driven by ReadMemory::get_range: current runs from min
\* while current <= end; current += 1 wraps to 0 after 0xFFFF, so with end = 0xFFFF
\* the iteration never ends by itself: it stops at the first failing read, and when
\* every address can be read it does not stop
GetRangeFrom(bs, current, end, result, wrapped) ==
    IF current > end THEN Ok(result)
    ELSE LET r == MapperGet(bs, current)
         IN IF r.tag = "Err" THEN r
            ELSE IF current = AddressMod - 1
            THEN IF wrapped THEN Hang
                 ELSE GetRangeFrom(bs, 0, end, Append(result, r.v), TRUE)
            ELSE GetRangeFrom(bs, current + 1, end, Append(result, r.v), wrapped)

\* ReadMemory::get_range
get_range(bs, range) == GetRangeFrom(bs, range.min, range.max, <<>>, FALSE)

(***************************************************************************)
(* display.rs: VideoMemory                                                 *)
(***************************************************************************)
BIT_WIDTH == 64
BIT_HEIGHT == 32

\* VideoMemory::get_index_offset: coordinates wrap; never an error
get_index_offset(x, y) ==
    LET xw == x % BIT_WIDTH
        yw == y % BIT_HEIGHT
        bit_index == xw + (yw * BIT_WIDTH)
    IN <<bit_index \div 8, bit_index % 8>>

\* VideoMemory::get
VideoGet(vr, x, y) == get_index_offset(x, y) \in vr

\* the arguments of the callbacks a listener receives
OnChange(x, y, value) == [cb |-> "on_change", x |-> x, y |-> y, value |-> value]
OnClear == [cb |-> "on_clear", x |-> 0, y |-> 0, value |-> FALSE]

\* set addressing the pixel without the wrap of get_index_offset
VideoSet_unwrapped(vr, x, y, value) ==
    LET io == <<(x + (y * BIT_WIDTH)) \div 8, (x + (y * BIT_WIDTH)) % 8>>
    IN [vram |-> IF value THEN vr \cup {io} ELSE vr \ {io},
        bit |-> io \in vr,
        change |-> OnChange(x, y, value)]

\* VideoMemory::set up to its loop over the listeners: the data after the call, the
\* pixel's old value, which it returns, and what it passes to on_change
VideoSet(vr, x, y, value) ==
    LET io == get_index_offset(x, y)
    IN [vram |-> IF value THEN vr \cup {io} ELSE vr \ {io},
        bit |-> io \in vr,
        change |-> OnChange(x, y, value)]

\* flip turning the pixel on whatever it was
VideoFlip_on(vr, x, y) ==
    LET io == get_index_offset(x, y)
    IN [vram |-> vr \cup {io}, bit |-> TRUE, change |-> OnChange(x, y, TRUE)]

\* VideoMemory::flip up to its loop over the listeners: the data after the flip, the
\* pixel's new value, which it returns, and what it passes to on_change
VideoFlip(vr, x, y) ==
    LET io == get_index_offset(x, y)
    IN IF io \in vr
       THEN [vram |-> vr \ {io}, bit |-> FALSE, change |-> OnChange(x, y, FALSE)]
       ELSE [vram |-> vr \cup {io}, bit |-> TRUE, change |-> OnChange(x, y, TRUE)]

\* VideoMemory::clear up to its loop over the listeners
VideoClear(vr) == {}

\* listeners.values_mut(): the listeners in the order the HashMap iterates them, which
\* is any order
IterationOrders(ls) ==
    {s \in [1 .. Cardinality(DOMAIN ls) -> DOMAIN ls] :
        \A i, j \in DOMAIN s : i # j => s[i] # s[j]}

\* for listener in self.listeners.values_mut() { listener.on_...(..)?; }: the callbacks
\* made, in order; the loop ends at the first listener whose callback fails
NotifyAll(order, failing, change) ==
    LET fails == {k \in 1 .. Len(order) : order[k] \in failing}
        stop == IF fails = {} THEN Len(order)
                ELSE CHOOSE k \in fails : \A j \in fails : k <= j
    IN [tag |-> IF fails = {} THEN "Ok" ELSE "Err",
        notified |-> [k \in 1 .. stop |-> [id |-> order[k], change |-> change]]]

\* the place of a new listener after those attached before it
NextOrder(ls) ==
    IF DOMAIN ls = {} THEN 1
    ELSE 1 + (CHOOSE n \in {ls[i].order : i \in DOMAIN ls} :
                 \A i \in DOMAIN ls : ls[i].order <= n)

\* VideoMemory::attach: on_attach, then the identifier taken from next_listener_id, the
\* counter incremented and the listener inserted under the identifier. Incrementing
\* the u8 counter from 255 panics in a build with overflow checks and wraps to 0 in a
\* build without; insert replaces the listener already held under the identifier, which
\* is dropped without on_detach
VideoAttach(ls, next, setup_fails, overflow) ==
    IF setup_fails
    THEN [tag |-> "Err", listeners |-> ls, next |-> next, id |-> -1, replaced |-> {}]
    ELSE IF next + 1 >= WordMod /\ overflow = "panic"
    THEN [tag |-> "Panic", listeners |-> ls, next |-> next, id |-> -1, replaced |-> {}]
    ELSE [tag |-> "Ok",
          listeners |-> (next :> [started |-> TRUE, order |-> NextOrder(ls)]) @@ ls,
          next |-> (next + 1) % WordMod,
          id |-> next,
          replaced |-> IF next \in DOMAIN ls THEN {ls[next]} ELSE {}]

\* VideoMemory::detach: the listener is removed, then given on_detach, whose result
\* is returned; an identifier that is not held is Ok
VideoDetach(ls, id, teardown_fails) ==
    IF id \notin DOMAIN ls
    THEN [tag |-> "Ok", listeners |-> ls, torn |-> {}]
    ELSE [tag |-> IF teardown_fails THEN "Err" ELSE "Ok",
          listeners |-> [i \in DOMAIN ls \ {id} |-> ls[i]],
          torn |-> {ls[id]}]

\* impl Drop for VideoMemory: detach(id).expect(..) for each identifier in the order of
\* the HashMap's keys; the first on_detach that fails panics, and the listeners still
\* held are dropped with the map without on_detach
VideoDrop(ls, order, failing) ==
    LET n == NotifyAll(order, failing, [cb |-> "on_detach", x |-> 0, y |-> 0, value |-> FALSE])
        reached == {n.notified[k].id : k \in 1 .. Len(n.notified)}
    IN [tag |-> IF n.tag = "Ok" THEN "Ok" ELSE "Panic",
        torn |-> {ls[i] : i \in reached},
        lost |-> {ls[i] : i \in DOMAIN ls \ reached}]

(***************************************************************************)
(* input/mod.rs: InputBuffer; input/windows.rs: NativeInputManager         *)
(***************************************************************************)
KEY_NUM == 16

\* to_key_index reducing an index of 16 or more modulo the number of keys
to_key_index_wrapping(value) ==
    IF value < 0 THEN Err(Error("Unable to convert argument to usize", <<>>))
    ELSE Ok(value % KEY_NUM)

\* to_key_index: a value that is no usize, or an index of 16 or more, is an error
to_key_index(value) ==
    IF value < 0 THEN Err(Error("Unable to convert argument to usize", <<>>))
    ELSE IF value >= KEY_NUM THEN Err(Error("Key index out of bounds", <<>>))
    ELSE Ok(value)

\* InputBuffer::is_down
is_down(ks, index_into) ==
    LET index == to_key_index(index_into)
    IN IF index.tag = "Err" THEN index ELSE Ok(ks[index.v] # "Released")

\* InputBuffer::set_state (press, hold and release call it with their state)
set_state(ks, index_into, state) ==
    LET index == to_key_index(index_into)
    IN IF index.tag = "Err" THEN index ELSE Ok([ks EXCEPT ![index.v] = state])

\* InputBuffer::tick leaving every cell as it is
InputBufferTick_keep(ks) == ks

\* InputBuffer::tick: every cell that is not Held becomes Released
InputBufferTick(ks) ==
    [i \in DOMAIN ks |-> IF ks[i] = "Held" THEN "Held" ELSE "Released"]

\* NativeInputManager::handle_event on an event already translated to a CHIP-8 key
\* (-1: a key of no CHIP-8 meaning): key down holds, key up releases
handle_event(ks, event) ==
    IF event.chip8_key >= 0 /\ event.chip8_key < KEY_NUM
    THEN IF event.bKeyDown = 1 THEN set_state(ks, event.chip8_key, "Held").v
                               ELSE set_state(ks, event.chip8_key, "Released").v
    ELSE ks

RECURSIVE NativeTick(_, _)
\* NativeInputManager::tick: every pending console event, in order
NativeTick(ks, events) ==
    IF events = <<>> THEN ks
    ELSE NativeTick(handle_event(ks, Head(events)), Tail(events))

\* InputManager::tick without the buffer's tick
InputManagerTick_polling_only(ks, events) == NativeTick(ks, events)

\* InputManager::tick: the native polling, then the buffer's tick
InputManagerTick(ks, events) == InputBufferTick(NativeTick(ks, events))

(***************************************************************************)
(* timers.rs: Timers                                                       *)
(***************************************************************************)
\* DELAY_FREQUENCY, in nanoseconds
DELAY_FREQUENCY == 1000000000 \div 60

\* Timers::try_decrement_delay without the test for zero
try_decrement_delay_unguarded(t) == [t EXCEPT !.delay_timer = WordSub(t.delay_timer, 1)]

\* Timers::try_decrement_delay
try_decrement_delay(t) ==
    IF t.delay_timer > 0 THEN [t EXCEPT !.delay_timer = WordSub(t.delay_timer, 1)] ELSE t

RECURSIVE TimersDrain(_)
\* the while loop of Timers::tick
TimersDrain(t) ==
    IF t.delay_accumulator >= DELAY_FREQUENCY
    THEN TimersDrain([try_decrement_delay(t) EXCEPT
                         !.delay_accumulator = t.delay_accumulator - DELAY_FREQUENCY])
    ELSE t

\* Timers::tick, elapsed being the time since the last tick
TimersTick(t, elapsed) ==
    TimersDrain([t EXCEPT !.delay_accumulator = t.delay_accumulator + elapsed])

(***************************************************************************)
(* cpu.rs: CPU                                                             *)
(* A machine m is the record of the CPU's fields.                          *)
(***************************************************************************)
\* what interpret's match arm leaves: the machine, Ok or the error, and increment_pc
IOk(m, inc) == [tag |-> "Ok", m |-> m, error |-> NoError, increment_pc |-> inc]
IErr(m, e) == [tag |-> "Err", m |-> m, error |-> e, increment_pc |-> FALSE]
IPanic(m) == [tag |-> "Panic", m |-> m, error |-> NoError, increment_pc |-> FALSE]
IHang(m) == [tag |-> "Hang", m |-> m, error |-> NoError, increment_pc |-> FALSE]

\* CPU::get_value
get_value(m, param) ==
    IF param.kind = "Immediate" THEN param.v ELSE m.values[param.v]

\* Opcode::Assign writing the flag for every carry, whatever the right operand is
InterpretAssign_any_operand(m, left_reg, right, operation) ==
    LET r == evaluate(operation, m.values[left_reg], get_value(m, right))
        v1 == [m.values EXCEPT ![left_reg] = r.result]
        v2 == IF r.carry # None
              THEN [v1 EXCEPT ![15] = WordNew(IF r.carry[1] THEN 1 ELSE 0)]
              ELSE v1
    IN IOk([m EXCEPT !.values = v2], TRUE)

\* Opcode::Assign
InterpretAssign(m, left_reg, right, operation) ==
    LET r == evaluate(operation, m.values[left_reg], get_value(m, right))
        v1 == [m.values EXCEPT ![left_reg] = r.result]
        v2 == IF r.carry # None /\ right.kind = "Register"
              THEN [v1 EXCEPT ![15] = WordNew(IF r.carry[1] THEN 1 ELSE 0)]
              ELSE v1
    IN IOk([m EXCEPT !.values = v2], TRUE)

\* Opcode::Shift, right: true and right: false
InterpretShift(m, reg, right) ==
    LET value == m.values[reg]
        v1 == IF right
              THEN [m.values EXCEPT ![15] = BitAnd(value, 1)]
              ELSE [m.values EXCEPT ![15] = WordShr(BitAnd(value, 128), 7)]
        v2 == IF right
              THEN [v1 EXCEPT ![reg] = WordShr(value, 1)]
              ELSE [v1 EXCEPT ![reg] = WordShl(value, 1)]
    IN IOk([m EXCEPT !.values = v2], TRUE)

\* Opcode::Random, rnd being the byte random::<u8>() returns
InterpretRandom(m, reg, mask, rnd) ==
    IOk([m EXCEPT !.values[reg] = BitAnd(WordNew(rnd), mask)], TRUE)

\* Opcode::AssignAddress
InterpretAssignAddress(m, addr) == IOk([m EXCEPT !.address = addr], TRUE)

\* Opcode::AddAddress
InterpretAddAddress(m, reg) ==
    IOk([m EXCEPT !.address = AddressAdd(m.address, m.values[reg])], TRUE)

\* Word * n and Word / n, Word % n: used by cpu.rs and absent from core.rs
WordMul(a, n) == (a * n) % WordMod
WordDiv(a, n) == a \div n
WordRem(a, n) == a % n

\* Opcode::GetCharacterAddress
InterpretGetCharacterAddress(m, reg) ==
    IOk([m EXCEPT !.address = AddressNew(WordMul(m.values[reg], 5))], TRUE)

\* Opcode::Return taking the oldest address of the stack
InterpretReturn_first(m) ==
    IF m.stack = <<>>
    THEN IErr(m, Error("Tried to return from an empty stack", <<>>))
    ELSE IOk([m EXCEPT !.stack = Tail(m.stack), !.pc = Head(m.stack)], TRUE)

\* Opcode::Return taking address 0 from an empty stack
InterpretReturn_zero(m) ==
    IF m.stack = <<>>
    THEN IOk([m EXCEPT !.pc = 0], TRUE)
    ELSE IOk([m EXCEPT !.stack = SubSeq(m.stack, 1, Len(m.stack) - 1),
                       !.pc = m.stack[Len(m.stack)]], TRUE)

\* Opcode::Return
InterpretReturn(m) ==
    IF m.stack = <<>>
    THEN IErr(m, Error("Tried to return from an empty stack", <<>>))
    ELSE IOk([m EXCEPT !.stack = SubSeq(m.stack, 1, Len(m.stack) - 1),
                       !.pc = m.stack[Len(m.stack)]], TRUE)

\* Opcode::Jump leaving increment_pc set
InterpretJump_incremented(m, addr) == IOk([m EXCEPT !.pc = addr], TRUE)

\* Opcode::Jump
InterpretJump(m, addr) == IOk([m EXCEPT !.pc = addr], FALSE)

\* Opcode::OffsetJump
InterpretOffsetJump(m, addr) ==
    IOk([m EXCEPT !.pc = AddressAdd(addr, m.values[0])], FALSE)

\* Opcode::Call pushing the address of the instruction after the call
InterpretCall_next(m, addr) ==
    IOk([m EXCEPT !.stack = Append(m.stack, AddressAdd(m.pc, 2)), !.pc = addr], FALSE)

\* Opcode::Call
InterpretCall(m, addr) ==
    IOk([m EXCEPT !.stack = Append(m.stack, m.pc), !.pc = addr], FALSE)

\* Opcode::CondJump
InterpretCondJump(m, left, right, cond) ==
    IF CondEvaluate(cond, get_value(m, left), get_value(m, right))
    THEN IOk([m EXCEPT !.pc = AddressAdd(m.pc, 2)], TRUE)
    ELSE IOk(m, TRUE)

\* Opcode::ClearScreen
InterpretClearScreen(m) ==
    IOk([m EXCEPT !.vram = VideoClear(m.vram), !.notified = Append(@, OnClear)], TRUE)

RECURSIVE DrawBits_last_flip(_, _, _, _, _, _)
\* the two loops of Opcode::Draw with the flag following every flip
DrawBits_last_flip(m, sprite, x, y, height, k) ==
    IF k >= height * 8 THEN m
    ELSE LET dy == k \div 8
             dx == k % 8
             byte == sprite[dy + 1]
             bit == BitAnd(WordShr(byte, 7 - dx), 1) = 1
         IN IF ~bit THEN DrawBits_last_flip(m, sprite, x, y, height, k + 1)
            ELSE LET f == VideoFlip(m.vram, x + dx, y + dy)
                     m1 == [m EXCEPT !.vram = f.vram, !.notified = Append(@, f.change)]
                     m2 == [m1 EXCEPT !.values[15] = IF ~f.bit THEN 1 ELSE 0]
                 IN DrawBits_last_flip(m2, sprite, x, y, height, k + 1)

RECURSIVE DrawBits(_, _, _, _, _, _)
\* the two loops of Opcode::Draw, k counting the bits: row dy = k / 8, column dx = k % 8
DrawBits(m, sprite, x, y, height, k) ==
    IF k >= height * 8 THEN m
    ELSE LET dy == k \div 8
             dx == k % 8
             byte == sprite[dy + 1]
             bit == BitAnd(WordShr(byte, 7 - dx), 1) = 1
         IN IF ~bit THEN DrawBits(m, sprite, x, y, height, k + 1)
            ELSE LET f == VideoFlip(m.vram, x + dx, y + dy)
                     m1 == [m EXCEPT !.vram = f.vram, !.notified = Append(@, f.change)]
                     m2 == IF ~f.bit THEN [m1 EXCEPT !.values[15] = 1] ELSE m1
                 IN DrawBits(m2, sprite, x, y, height, k + 1)

\* Opcode::Draw
InterpretDraw(m, x_reg, y_reg, height) ==
    LET x == m.values[x_reg]
        y == m.values[y_reg]
        range == MemoryRangeNewLen(m.address, height)
    IN IF range.tag = "Panic" THEN IPanic(m)
       ELSE LET sprite == get_range(m.banks, range.v)
            IN IF sprite.tag = "Err" THEN IErr(m, sprite.error)
               ELSE IF sprite.tag = "Hang" THEN IHang(m)
               ELSE IOk(DrawBits([m EXCEPT !.values[15] = 0], sprite.v, x, y, height, 0), TRUE)

\* Opcode::BlockOnKey taking the last key that is down
InterpretBlockOnKey_last(m, reg) ==
    LET down == {i \in 0 .. (KEY_NUM - 1) : is_down(m.keys, i).v}
    IN IF down = {} THEN IOk(m, FALSE)
       ELSE LET i == CHOOSE i \in down : \A j \in down : i >= j
            IN IOk([m EXCEPT !.values[reg] = WordNew(i)], TRUE)

\* Opcode::BlockOnKey: the first key that is down, in index order
InterpretBlockOnKey(m, reg) ==
    LET down == {i \in 0 .. (KEY_NUM - 1) : is_down(m.keys, i).v}
    IN IF down = {} THEN IOk(m, FALSE)
       ELSE LET i == CHOOSE i \in down : \A j \in down : i <= j
            IN IOk([m EXCEPT !.values[reg] = WordNew(i)], TRUE)

\* Opcode::CondKeyJump
InterpretCondKeyJump(m, reg, cond) ==
    LET key == m.values[reg]
        down == is_down(m.keys, key)
    IN IF down.tag = "Err" THEN IErr(m, down.error)
       ELSE IF CondEvaluate(cond, down.v, TRUE)
       THEN IOk([m EXCEPT !.pc = AddressAdd(m.pc, 2)], TRUE)
       ELSE IOk(m, TRUE)

\* Opcode::GetDelayTimer
InterpretGetDelayTimer(m, reg) == IOk([m EXCEPT !.values[reg] = m.delay_timer], TRUE)

\* Opcode::SetTimer
InterpretSetTimer(m, reg, timer) ==
    IF timer = "Delay"
    THEN IOk([m EXCEPT !.delay_timer = m.values[reg]], TRUE)
    ELSE IOk([m EXCEPT !.sound_timer = m.values[reg]], TRUE)

RECURSIVE WriteBCDFrom(_, _, _, _)
\* the loop of Opcode::WriteBCD: digit i goes to base_addr - i, ones first
WriteBCDFrom(m, value, base_addr, i) ==
    IF i > 2 THEN IOk(m, TRUE)
    ELSE LET addr == AddressSub(base_addr, i)
             digit == WordRem(WordDiv(value, 10 ^ i), 10)
             w == MapperSet(m.banks, addr, digit)
         IN IF w.tag = "Err" THEN IErr(m, w.error)
            ELSE WriteBCDFrom([m EXCEPT !.banks = w.v], value, base_addr, i + 1)

\* Opcode::WriteBCD with the index register as the base address
InterpretWriteBCD_from_index(m, reg) ==
    WriteBCDFrom(m, m.values[reg], m.address, 0)

\* Opcode::WriteBCD
InterpretWriteBCD(m, reg) ==
    WriteBCDFrom(m, m.values[reg], AddressAdd(m.address, 2), 0)

RECURSIVE DumpFrom_exclusive(_, _, _)
\* the dump over registers i..end, the last one left out
DumpFrom_exclusive(m, end, i) ==
    IF i >= end THEN IOk(m, TRUE)
    ELSE LET w == MapperSet(m.banks, AddressAdd(m.address, i), m.values[i])
         IN IF w.tag = "Err" THEN IErr(m, w.error)
            ELSE DumpFrom_exclusive([m EXCEPT !.banks = w.v], end, i + 1)

RECURSIVE DumpFrom(_, _, _)
\* Opcode::DumpValueRegisters: registers i..=end to address + i
DumpFrom(m, end, i) ==
    IF i > end THEN IOk(m, TRUE)
    ELSE LET w == MapperSet(m.banks, AddressAdd(m.address, i), m.values[i])
         IN IF w.tag = "Err" THEN IErr(m, w.error)
            ELSE DumpFrom([m EXCEPT !.banks = w.v], end, i + 1)

RECURSIVE LoadFrom(_, _, _)
\* Opcode::LoadValueRegisters: registers i..=end from address + i
LoadFrom(m, end, i) ==
    IF i > end THEN IOk(m, TRUE)
    ELSE LET r == MapperGet(m.banks, AddressAdd(m.address, i))
         IN IF r.tag = "Err" THEN IErr(m, r.error)
            ELSE LoadFrom([m EXCEPT !.values[i] = r.v], end, i + 1)

\* the match of CPU::interpret
InterpretMatch(m, opcode, rnd) ==
    CASE opcode.op = "Assign" ->
            InterpretAssign(m, opcode.left_reg, opcode.right, opcode.operation)
      [] opcode.op = "Shift" -> InterpretShift(m, opcode.reg, opcode.right)
      [] opcode.op = "Random" -> InterpretRandom(m, opcode.reg, opcode.mask, rnd)
      [] opcode.op = "AssignAddress" -> InterpretAssignAddress(m, opcode.addr)
      [] opcode.op = "AddAddress" -> InterpretAddAddress(m, opcode.reg)
      [] opcode.op = "GetCharacterAddress" -> InterpretGetCharacterAddress(m, opcode.reg)
      [] opcode.op = "Return" -> InterpretReturn(m)
      [] opcode.op = "Jump" -> InterpretJump(m, opcode.addr)
      [] opcode.op = "OffsetJump" -> InterpretOffsetJump(m, opcode.addr)
      [] opcode.op = "Call" -> InterpretCall(m, opcode.addr)
      [] opcode.op = "CondJump" ->
            InterpretCondJump(m, opcode.left, opcode.right, opcode.cond)
      [] opcode.op = "ClearScreen" -> InterpretClearScreen(m)
      [] opcode.op = "Draw" -> InterpretDraw(m, opcode.x, opcode.y, opcode.height)
      [] opcode.op = "BlockOnKey" -> InterpretBlockOnKey(m, opcode.reg)
      [] opcode.op = "CondKeyJump" -> InterpretCondKeyJump(m, opcode.reg, opcode.cond)
      [] opcode.op = "GetDelayTimer" -> InterpretGetDelayTimer(m, opcode.reg)
      [] opcode.op = "SetTimer" -> InterpretSetTimer(m, opcode.reg, opcode.timer)
      [] opcode.op = "Nop" -> IOk(m, TRUE)
      [] opcode.op = "WriteBCD" -> InterpretWriteBCD(m, opcode.reg)
      [] opcode.op = "DumpValueRegisters" -> DumpFrom(m, opcode.reg, 0)
      [] opcode.op = "LoadValueRegisters" -> LoadFrom(m, opcode.reg, 0)
      [] OTHER -> IErr(m, Error("Opcode not supported", <<opcode>>))

\* interpret stepping over the operations the match does not implement
interpret_skip(m, opcode, rnd) ==
    LET r == InterpretMatch(m, opcode, rnd)
    IN IF r.tag = "Err" /\ r.error.message = "Opcode not supported"
       THEN IOk([m EXCEPT !.pc = AddressAdd(m.pc, 2)], TRUE)
       ELSE IF r.tag = "Ok" /\ r.increment_pc
       THEN [r EXCEPT !.m.pc = AddressAdd(r.m.pc, 2)]
       ELSE r

\* CPU::interpret: the match, then the program counter's increment
interpret(m, opcode, rnd) ==
    LET r == InterpretMatch(m, opcode, rnd)
    IN IF r.tag = "Ok" /\ r.increment_pc
       THEN [r EXCEPT !.m.pc = AddressAdd(r.m.pc, 2)]
       ELSE r

\* what CPU::tick leaves: the machine, Ok or the error, and what was fetched and decoded
TickResult(r, word, opcode) ==
    [tag |-> r.tag, m |-> r.m, error |-> r.error, word |-> word, opcode |-> opcode]

\* CPU::tick: the timers, the input, the fetch, the decoding and the execution
tick(m, elapsed, events, rnd) ==
    LET t == TimersTick([delay_timer |-> m.delay_timer, sound_timer |-> m.sound_timer,
                         delay_accumulator |-> m.delay_accumulator], elapsed)
        m1 == [m EXCEPT !.delay_timer = t.delay_timer, !.sound_timer = t.sound_timer,
                        !.delay_accumulator = t.delay_accumulator,
                        !.keys = InputManagerTick(m.keys, events)]
        range == MemoryRangeNewLen(m1.pc, 2)
    IN IF range.tag = "Panic" THEN TickResult(IPanic(m1), -1, NoOpcode)
       ELSE LET opcode_bytes == get_range(m1.banks, range.v)
            IN IF opcode_bytes.tag = "Err"
               THEN TickResult(IErr(m1, opcode_bytes.error), -1, NoOpcode)
               ELSE IF opcode_bytes.tag = "Hang" THEN TickResult(IHang(m1), -1, NoOpcode)
               ELSE LET word == opcode_bytes.v[1] * 256 + opcode_bytes.v[2]
                        d == decode_bytes(opcode_bytes.v[1], opcode_bytes.v[2])
                    IN IF d.tag = "Err" THEN TickResult(IErr(m1, d.error), word, NoOpcode)
                       ELSE IF d.tag = "Panic" THEN TickResult(IPanic(m1), word, NoOpcode)
                       ELSE TickResult(interpret(m1, d.opcode, rnd), word, d.opcode)

\* DIGITS_ROM_DATA (digits.bin): sixteen glyphs of five bytes
DIGITS_ROM_DATA ==
    << \hF0, \h90, \h90, \h90, \hF0,   \h20, \h60, \h20, \h20, \h70,
       \hF0, \h10, \hF0, \h80, \hF0,   \hF0, \h10, \hF0, \h10, \hF0,
       \h90, \h90, \hF0, \h10, \h10,   \hF0, \h80, \hF0, \h10, \hF0,
       \hF0, \h80, \hF0, \h90, \hF0,   \hF0, \h10, \h20, \h40, \h40,
       \hF0, \h90, \hF0, \h90, \hF0,   \hF0, \h90, \hF0, \h10, \hF0,
       \hF0, \h90, \hF0, \h90, \h90,   \hE0, \h90, \hE0, \h90, \hE0,
       \hF0, \h80, \h80, \h80, \hF0,   \hE0, \h90, \h90, \h90, \hE0,
       \hF0, \h80, \hF0, \h80, \hF0,   \hF0, \h80, \hF0, \h80, \h80 >>

\* the mapper CPU::new builds: the digits ROM, read only, at 0x000-0x04F
NewCpuBanks ==
    MapperAdd(<<>>, "r", ByteArrayNew(DIGITS_ROM_DATA),
              MemoryRangeNew(0, Len(DIGITS_ROM_DATA) - 1).v, "Digits ROM").v

(***************************************************************************)
(* The state machine                                                       *)
(***************************************************************************)
\* the CPU's fields as one record, and notified: the callbacks the video memory makes
\* on each attached listener during the call, in order
Machine ==
    [values |-> values, pc |-> program_counter, address |-> address, stack |-> stack,
     banks |-> banks, vram |-> vram, keys |-> keys, delay_timer |-> delay_timer,
     sound_timer |-> sound_timer, delay_accumulator |-> delay_accumulator,
     notified |-> <<>>]

NotDecoded == [tag |-> "None", opcode |-> NoOpcode, error |-> NoError]

\* CPU::new: Registers::new, Timers::new, VideoMemory::new, InputBuffer::new, an empty
\* stack and the digits ROM mapped
InitCpu ==
    /\ values = [i \in 0 .. 15 |-> 0]
    /\ program_counter = \h0200
    /\ address = 0
    /\ stack = <<>>
    /\ vram = {}
    /\ listeners = <<>>
    /\ next_listener_id = 0
    /\ keys = [i \in 0 .. (KEY_NUM - 1) |-> "Released"]
    /\ delay_timer = 0
    /\ sound_timer = 0
    /\ delay_accumulator = 0

Init ==
    /\ InitCpu
    /\ banks = NewCpuBanks
    /\ last = [call |-> "new", tag |-> "Ok", error |-> NoError]
    /\ dec_word = 0
    /\ dec_out = NotDecoded

\* the bytes of a program given as 16-bit words, big endian
ProgramBytes(prog) ==
    [i \in 1 .. (2 * Len(prog)) |->
        IF i % 2 = 1 THEN prog[(i + 1) \div 2] \div 256 ELSE prog[i \div 2] % 256]

RECURSIVE LoadBytes(_, _, _)
\* the loading loop of run (main.rs): byte i of the file goes to 0x200 + i
LoadBytes(bs, buffer, i) ==
    IF i >= Len(buffer) THEN Ok(bs)
    ELSE LET w == MapperSet(bs, AddressNew(\h200 + i), WordNew(buffer[i + 1]))
         IN IF w.tag = "Err" THEN w ELSE LoadBytes(w.v, buffer, i + 1)

\* run (main.rs) up to its tick loop: the main memory is mapped at 0x200-0xFFF, the
\* file is loaded and the terminal listener attached
Run(prog) ==
    /\ last.call = "new"
    /\ LET a == MapperAdd(banks, "rw", ByteArrayZero(\h1000 - \h200),
                          MemoryRangeNew(\h200, \hFFF).v, "Main Memory")
           l == IF a.tag = "Err" THEN a ELSE LoadBytes(a.v, ProgramBytes(prog), 0)
       IN /\ banks' = IF l.tag = "Ok" THEN l.v ELSE IF a.tag = "Ok" THEN a.v ELSE banks
          /\ listeners' = IF l.tag = "Ok"
                          THEN VideoAttach(listeners, next_listener_id, FALSE, "wrap").listeners
                          ELSE listeners
          /\ next_listener_id' = IF l.tag = "Ok"
                                 THEN VideoAttach(listeners, next_listener_id, FALSE, "wrap").next
                                 ELSE next_listener_id
          /\ last' = [call |-> "run", tag |-> l.tag, error |-> l.error]
    /\ UNCHANGED <<cpuVars, vram, keys, timerVars, decVars>>

\* the longest call stack the model follows
MaxStack == 3

\* the time between two ticks, in half periods of the timers' clock
MaxHalfPeriods == 2
ElapsedChoices == {k * (DELAY_FREQUENCY \div 2) : k \in 0 .. MaxHalfPeriods}

\* the console events one tick may find pending
KeyEvents == {[chip8_key |-> k, bKeyDown |-> d] : k \in {-1, 5}, d \in {0, 1}}
EventBatches ==
    {<<>>} \cup {<<e>> : e \in KeyEvents}
           \cup {<<[chip8_key |-> 5, bKeyDown |-> 1], [chip8_key |-> 3, bKeyDown |-> 1]>>}

\* the bytes random::<u8>() may return
RandomBytes == {\h00, \hA5}

\* one pass of tick_loop (CPU::tick is also public) with the elapsed time, the pending
\* events and the random byte drawn from the given sets: the loop ends on the first error
TickWith(elapsedChoices, eventBatches, randomBytes) ==
    /\ last.call \in {"run", "tick"}
    /\ last.tag = "Ok"
    /\ Len(stack) <= MaxStack
    /\ \E elapsed \in elapsedChoices, events \in eventBatches, rnd \in randomBytes :
          \E r \in {tick(Machine, elapsed, events, rnd)} :
             /\ values' = r.m.values
                /\ program_counter' = r.m.pc
                /\ address' = r.m.address
                /\ stack' = r.m.stack
                /\ banks' = r.m.banks
                /\ vram' = r.m.vram
                /\ keys' = r.m.keys
                /\ delay_timer' = r.m.delay_timer
                /\ sound_timer' = r.m.sound_timer
                /\ delay_accumulator' = r.m.delay_accumulator
                /\ last' = [call |-> "tick", tag |-> r.tag, error |-> r.error,
                            pc |-> program_counter, word |-> r.word, opcode |-> r.opcode,
                            stack |-> stack, notified |-> r.m.notified,
                            values |-> values, vram |-> vram]
    /\ UNCHANGED <<listeners, next_listener_id, decVars>>

\* a tick of the loop under any of the modelled timings, events and random bytes
Tick == TickWith(ElapsedChoices, EventBatches, RandomBytes)

\* a tick of the loop with no console event pending, after nothing or one period of the
\* timers' clock
TickQuiet == TickWith({0, DELAY_FREQUENCY}, {<<>>}, {\hA5})

(***************************************************************************)
(* The engine running a program: run (main.rs), then the tick loop         *)
(***************************************************************************)
\* 0x200: V0 := 0xFF; V1 := 0; 0x204: four times I += V0; V1 += 1; skip if V1 = 0x40;
\* jump 0x204; 0x212: I += V0; draw one row at (V0, V0)
ProgIndexClimb ==
    << \h60FF, \h6100, \hF01E, \hF01E, \hF01E, \hF01E, \h7101, \h3140, \h1204,
       \hF01E, \hD001 >>

\* 0x200: jump to 0xFFE, the last instruction of the main memory (a no-op)
ProgJumpEnd == << \h1FFE >>

\* 0x200: call 0x204; 0x202: jump 0x202; 0x204: call 0x208; 0x206: return; 0x208: return
ProgCallReturn == << \h2204, \h1202, \h2208, \h00EE, \h00EE >>

\* 0x200: call 0x200, over and over
ProgCallSelf == << \h2200 >>

\* 0x200: return, with nothing on the stack
ProgReturnEmpty == << \h00EE >>

\* 0x200: V0 := 4; 0x202: jump to 0x202 + V0; 0x206: jump 0x206
ProgOffsetJump == << \h6004, \hB202, \h0000, \h1206 >>

\* 0x200: V1 := 5; V2 := b; 0x204: the skip; 0x206: jump 0x206; 0x208: jump 0x208
ProgSkip(b, skip) == << \h6105, \h6200 + b, skip, \h1206, \h1208 >>

\* the skips on V1 = 5: 3XNN and 4XNN against 5 and 6, 5XY0 and 9XY0 against V2, and
\* EX9E and EXA1 on key 5
SkipPrograms ==
    {ProgSkip(b, skip) : b \in {5, 6},
                         skip \in {\h3105, \h3106, \h4105, \h4106, \h5120, \h9120,
                                   \hE19E, \hE1A1}}

\* 0x200: I := glyph 0; draw 5 rows at (V0, V0) = (0, 0); I := glyph 1; draw 4 rows at
\* (0, 0); 0x208: jump 0x208
ProgDrawCollide == << \hA000, \hD005, \hA005, \hD004, \h1208 >>

\* 0x200: V0 := 62; V1 := 31; I := glyph 0; draw 5 rows at (62, 31); 0x208: jump 0x208
ProgDrawWrap == << \h603E, \h611F, \hA000, \hD015, \h1208 >>

\* 0x200: I := 0x04B, glyph F, the last five bytes of the digits ROM; draw 5 rows at (0, 0)
ProgDrawLastGlyph == << \hA04B, \hD005, \h1204 >>

\* 0x200: VF := 1; I := 0; draw no row; 0x206: I := 0x100, where nothing is mapped;
\* draw no row; 0x20A: jump 0x20A
ProgDrawNoRows == << \h6F01, \hA000, \hD000, \hA100, \hD000, \h120A >>

\* 0x200: (V0, V1) := (x, y); I := 0 (the glyph of 0); the same draw three times;
\* 0x20C: jump 0x20C
ProgDrawThrice(x, y) ==
    <<\h6000 + x, \h6100 + y, \hA000, \hD015, \hD015, \hD015, \h120C>>

\* 0x200: VF := 2; V1 := 0; I := 0; two draws at (VF, V1), the first of which changes
\* VF; 0x208: jump 0x208
ProgDrawFlagColumn == <<\h6F02, \h6100, \hA000, \hDF15, \hDF15, \h1208>>

\* 0x200: I := 0x300, where the memory is zero; two draws of three blank rows;
\* 0x206: jump 0x206
ProgDrawBlankTwice == <<\hA300, \hD013, \hD013, \h1206>>

DrawPrograms ==
    {ProgDrawCollide, ProgDrawWrap, ProgDrawLastGlyph, ProgDrawNoRows,
     ProgDrawThrice(0, 0), ProgDrawThrice(\h3E, \h1F), ProgDrawFlagColumn,
     ProgDrawBlankTwice}

\* 0x200: wait for a key into V3; 0x202: jump 0x202
ProgBlockOnKey == << \hF30A, \h1202 >>

\* 0x200: I := i; 0x202: the BCD write or the register dump w; 0x204: jump 0x204
ProgWrite(i, w) == << \hA000 + i, w, \h1204 >>

\* BCD writes of V0 at I = 0x000, 0x04D (the units go to 0x04F), 0x04E (the units go to
\* 0x050, where nothing is mapped) and 0x300; dumps of V0..V1 at I = 0x000, 0x04F and 0x300
WritePrograms ==
    {ProgWrite(i, \hF033) : i \in {\h000, \h04D, \h04E, \h300}}
    \cup {ProgWrite(i, \hF155) : i \in {\h000, \h04F, \h300}}

\* 0x200: VA := 0x12; I := 0x345; then a word that decode rejects (8129, E1FF, F1FF)
\* or that decodes to an operation interpret does not implement (0123)
ProgFailing(w) == <<\h6A12, \hA345, w>>
FailingPrograms == {ProgFailing(w) : w \in {\h8129, \hE1FF, \hF1FF, \h0123}}

\* 0x200: V1 := v, a value that is no key; then a skip on the key V1; 0x204: jump 0x204
ProgKeyBounds(v, skip) == <<\h6100 + v, skip, \h1204>>
KeyBoundsPrograms == {ProgKeyBounds(v, skip) : v \in {\h10, \hFF}, skip \in {\hE19E, \hE1A1}}

Programs ==
    {ProgIndexClimb, ProgJumpEnd, ProgCallReturn, ProgCallSelf, ProgReturnEmpty,
     ProgOffsetJump, ProgBlockOnKey}
    \cup SkipPrograms \cup DrawPrograms \cup WritePrograms \cup FailingPrograms
    \cup KeyBoundsPrograms

Next ==
    \/ \E prog \in Programs : Run(prog)
    \/ Tick

Spec == Init /\ [][Next]_vars

(***************************************************************************)
(* The engine running the arithmetic and shift instructions on chosen      *)
(* register values                                                         *)
(***************************************************************************)
ByteSamples == {\h00, \h01, \h02, \h05, \h7F, \h80, \hFE, \hFF}

\* the register pairs (X, Y) of the instructions
RegPairs == {<<1, 2>>, <<15, 2>>, <<2, 15>>, <<3, 3>>}

\* 0x200: VF := 0x55; VX := a; VY := b; 8XYn; 0x208: jump 0x208
ProgRegOp(x, y, a, b, n) ==
    << \h6F55, \h6000 + 256 * x + a, \h6000 + 256 * y + b,
       \h8000 + 256 * x + 16 * y + n, \h1208 >>

\* 0x200: VF := 0x55; VX := a; then 6XNN or 7XNN with NN = b; 0x206: jump 0x206
ProgImmOp(x, a, b, f) ==
    << \h6F55, \h6000 + 256 * x + a, 4096 * f + 256 * x + b, \h1206 >>

AluPrograms ==
    {ProgRegOp(p[1], p[2], a, b, n) :
        p \in RegPairs, a \in ByteSamples, b \in ByteSamples,
        n \in {0, 1, 2, 3, 4, 5, 6, 7, 14}}
    \cup {ProgImmOp(x, a, b, f) :
        x \in {1, 15}, a \in ByteSamples, b \in ByteSamples, f \in {6, 7}}

NextAlu ==
    \/ \E prog \in AluPrograms : Run(prog)
    \/ TickQuiet

SpecAlu == Init /\ [][NextAlu]_vars

(***************************************************************************)
(* The decoder alone: decode applied to any 16-bit word                    *)
(***************************************************************************)
InitDecode ==
    /\ InitCpu
    /\ banks = NewCpuBanks
    /\ last = [call |-> "new", tag |-> "Ok", error |-> NoError]
    /\ dec_word \in 0 .. (AddressMod - 1)
    /\ dec_out = NotDecoded

\* Opcode::decode(dec_word)
Decode ==
    /\ dec_out = NotDecoded
    /\ dec_out' = decode(dec_word)
    /\ UNCHANGED <<cpuVars, banks, videoVars, keys, timerVars, last, dec_word>>

NextDecode == Decode

SpecDecode == InitDecode /\ [][NextDecode]_vars

(***************************************************************************)
(* The memory mapper alone: add, add_read, add_write, get and set on a     *)
(* mapper that starts empty                                                *)
(***************************************************************************)
\* the highest address of the mapper's callers, and the most banks they register
MemTop == 1
MaxBanks == 2

\* the name the caller gives the bank it registers as the n-th
BankName(n) == <<"bank", n>>
MemValues == {7}

\* MemoryMapper::new
InitMem ==
    /\ InitCpu
    /\ banks = <<>>
    /\ last = [call |-> "new", tag |-> "Ok", error |-> NoError]
    /\ dec_word = 0
    /\ dec_out = NotDecoded

\* add (kind "rw"), add_read ("r") or add_write ("w") of a zeroed byte array of size
\* words under the range MemoryRange::new(min, max)
MemAdd(kind, min, max, size, name) ==
    /\ last.tag # "Panic"
    /\ LET range == MemoryRangeNew(min, max)
           r == IF range.tag = "Panic" THEN range
                ELSE MapperAdd(banks, kind, ByteArrayZero(size), range.v, name)
       IN /\ r.tag = "Ok" => Len(banks) < MaxBanks
          /\ banks' = IF r.tag = "Ok" THEN r.v ELSE banks
          /\ last' = [call |-> "add", tag |-> r.tag, error |-> r.error,
                      range |-> [min |-> min, max |-> max], name |-> name]
    /\ UNCHANGED <<cpuVars, videoVars, keys, timerVars, decVars>>

\* MemoryMapper::get
MemGet(addr) ==
    /\ last.tag # "Panic"
    /\ LET r == MapperGet(banks, addr)
       IN last' = [call |-> "get", tag |-> r.tag, error |-> r.error, addr |-> addr,
                   value |-> r.v]
    /\ UNCHANGED <<cpuVars, banks, videoVars, keys, timerVars, decVars>>

\* MemoryMapper::set
MemSet(addr, value) ==
    /\ last.tag # "Panic"
    /\ LET r == MapperSet(banks, addr, value)
       IN /\ banks' = IF r.tag = "Ok" THEN r.v ELSE banks
          /\ last' = [call |-> "set", tag |-> r.tag, error |-> r.error, addr |-> addr,
                      value |-> value]
    /\ UNCHANGED <<cpuVars, videoVars, keys, timerVars, decVars>>

NextMem ==
    \/ \E kind \in {"rw", "r", "w"}, min \in 0 .. MemTop, max \in 0 .. MemTop,
          short \in {0, 1} :
          MemAdd(kind, min, max, IF max >= min THEN max - min + 1 - short ELSE 0,
                 BankName(Len(banks) + 1))
    \/ \E addr \in 0 .. (MemTop + 1) : MemGet(addr)
    \/ \E addr \in 0 .. (MemTop + 1), value \in MemValues : MemSet(addr, value)

SpecMem == InitMem /\ [][NextMem]_vars

(***************************************************************************)
(* The timers alone: Timers::tick called after any elapsed times on        *)
(* counters set beforehand                                                 *)
(***************************************************************************)
\* the periods of the timers' clock the model lets pass in all
MaxTimerPeriods == 12

\* the counters the timers start from
TimerStarts == {0, 1, 3, 10}

\* the time elapsed between two calls of Timers::tick
TimerElapsedChoices == ElapsedChoices \cup {5 * (DELAY_FREQUENCY \div 2)}

\* Timers::new, then delay_timer and sound_timer (public fields) set as FX15 and FX18
\* set them
InitTimers ==
    /\ values = [i \in 0 .. 15 |-> 0]
    /\ program_counter = \h0200
    /\ address = 0
    /\ stack = <<>>
    /\ vram = {}
    /\ listeners = <<>>
    /\ next_listener_id = 0
    /\ keys = [i \in 0 .. (KEY_NUM - 1) |-> "Released"]
    /\ delay_timer \in TimerStarts
    /\ sound_timer \in TimerStarts
    /\ delay_accumulator = 0
    /\ banks = NewCpuBanks
    /\ last = [call |-> "timers", tag |-> "Ok", error |-> NoError,
               delay_start |-> delay_timer, sound_start |-> sound_timer, total |-> 0]
    /\ dec_word = 0
    /\ dec_out = NotDecoded

\* Timers::tick called elapsed nanoseconds after the call before
TimersTickStep(elapsed) ==
    /\ last.total + elapsed <= MaxTimerPeriods * DELAY_FREQUENCY
    /\ \E t \in {TimersTick([delay_timer |-> delay_timer, sound_timer |-> sound_timer,
                              delay_accumulator |-> delay_accumulator], elapsed)} :
          /\ delay_timer' = t.delay_timer
          /\ sound_timer' = t.sound_timer
          /\ delay_accumulator' = t.delay_accumulator
    /\ last' = [last EXCEPT !.total = last.total + elapsed]
    /\ UNCHANGED <<cpuVars, banks, videoVars, keys, decVars>>

NextTimers == \E elapsed \in TimerElapsedChoices : TimersTickStep(elapsed)

SpecTimers == InitTimers /\ [][NextTimers]_vars

(***************************************************************************)
(* The input buffer alone: press, hold, release and tick on an InputBuffer *)
(***************************************************************************)
\* the key indices the callers pass: the first, one inside, the last, one too many and
\* one that is no usize
KeySamples == {0, 3, 15, 16, -1}

\* InputBuffer::new
InitInput ==
    /\ InitCpu
    /\ banks = NewCpuBanks
    /\ last = [call |-> "input_new", tag |-> "Ok", error |-> NoError, k |-> -1,
               before |-> "none", before_k |-> -1]
    /\ dec_word = 0
    /\ dec_out = NotDecoded

\* press (state Pressed), hold (Held) or release (Released) of key k
InputSet(call, state, k) ==
    /\ \E r \in {set_state(keys, k, state)} :
          /\ keys' = IF r.tag = "Ok" THEN r.v ELSE keys
          /\ last' = [call |-> call, tag |-> r.tag, error |-> r.error, k |-> k,
                      before |-> last.call, before_k |-> last.k]
    /\ UNCHANGED <<cpuVars, banks, videoVars, timerVars, decVars>>

\* InputBuffer::press
InputPress(k) == InputSet("press", "Pressed", k)

\* InputBuffer::hold
InputHold(k) == InputSet("hold", "Held", k)

\* InputBuffer::release
InputRelease(k) == InputSet("release", "Released", k)

\* InputBuffer::tick
InputTick ==
    /\ keys' = InputBufferTick(keys)
    /\ last' = [call |-> "input_tick", tag |-> "Ok", error |-> NoError, k |-> -1,
                before |-> last.call, before_k |-> last.k]
    /\ UNCHANGED <<cpuVars, banks, videoVars, timerVars, decVars>>

NextInput ==
    \/ \E k \in KeySamples : InputPress(k)
    \/ \E k \in KeySamples : InputHold(k)
    \/ \E k \in KeySamples : InputRelease(k)
    \/ InputTick

SpecInput == InitInput /\ [][NextInput]_vars

(***************************************************************************)
(* Programs that reach a native call: every word 0NNN that is not the      *)
(* no-op, the clear or the return, after two instructions that leave       *)
(* values in VA and in the index register                                  *)
(***************************************************************************)
NativeWords == (1 .. \h0FFF) \ {\h00E0, \h00EE}
ProgNative(w) == <<\h6A12, \hA345, w>>

NextNative ==
    \/ \E w \in NativeWords : Run(ProgNative(w))
    \/ TickQuiet

SpecNative == Init /\ [][NextNative]_vars

(***************************************************************************)
(* The video memory alone, with listeners attached and detached by its     *)
(* caller: VideoMemory::new or a memory whose counter of identifiers has   *)
(* gone up, then get, set, flip, clear, attach, detach and the drop        *)
(***************************************************************************)
\* the most listeners the caller keeps attached; it attaches one listener more than
\* that in all
MaxListeners == 2

\* the attach calls made before the model starts: none, or 254 of which only the
\* listener of the first is still attached
EarlierAttaches == {0, 254}

\* the coordinates the callers pass: inside the grid, one width and height beyond it,
\* and those of a draw at VX = VY = 255
VideoCoordinates == {<<0, 0>>, <<63, 31>>, <<64, 32>>, <<255, 255>>}

\* the error of a listener whose callback fails
ListenerError == Error("listener callback failed", <<>>)

\* what the last call on the video memory was given, returned and did to the listeners:
\* the callbacks made, the listeners given on_detach (torn) and the listeners dropped
\* without it (lost)
VideoCall(call, tag, xy, value, result, id, notified, torn, lost) ==
    [call |-> call, tag |-> tag, error |-> IF tag = "Err" THEN ListenerError ELSE NoError,
     x |-> xy[1], y |-> xy[2], value |-> value, result |-> result, id |-> id,
     notified |-> notified, torn |-> torn, lost |-> lost]

\* VideoMemory::new
InitVideo ==
    /\ InitCpu
    /\ banks = <<>>
    /\ dec_word = 0
    /\ dec_out = NotDecoded
    /\ last = VideoCall("new", "Ok", <<0, 0>>, FALSE, FALSE, -1, <<>>, {}, {})

\* VideoMemory::new, or the memory after the earlier attach calls and the detach calls
\* of all their listeners but the first
InitListeners ==
    /\ values = [i \in 0 .. 15 |-> 0]
    /\ program_counter = \h0200
    /\ address = 0
    /\ stack = <<>>
    /\ banks = <<>>
    /\ keys = [i \in 0 .. (KEY_NUM - 1) |-> "Released"]
    /\ delay_timer = 0
    /\ sound_timer = 0
    /\ delay_accumulator = 0
    /\ dec_word = 0
    /\ dec_out = NotDecoded
    /\ vram = {}
    /\ \E n \in EarlierAttaches :
          /\ next_listener_id = n
          /\ listeners = IF n = 0 THEN <<>>
                         ELSE VideoAttach(<<>>, 0, FALSE, "wrap").listeners
    /\ last = VideoCall("new", "Ok", <<0, 0>>, FALSE, FALSE, -1, <<>>, {}, {})

\* the video memory is there: not dropped, and no call has panicked
VideoAlive == last.call # "drop" /\ last.tag # "Panic"

\* the listeners whose callback fails in one call: none or one of them
FailingChoices(ls) == {{}} \cup {{i} : i \in DOMAIN ls}

\* VideoMemory::get
VideoGetCall(xy) ==
    /\ VideoAlive
    /\ last' = VideoCall("get", "Ok", xy, FALSE, VideoGet(vram, xy[1], xy[2]), -1,
                         <<>>, {}, {})
    /\ UNCHANGED <<cpuVars, banks, videoVars, keys, timerVars, decVars>>

\* VideoMemory::set
VideoSetCall(xy, value) ==
    /\ VideoAlive
    /\ \E order \in IterationOrders(listeners), failing \in FailingChoices(listeners) :
          LET s == VideoSet(vram, xy[1], xy[2], value)
              n == NotifyAll(order, failing, s.change)
          IN /\ vram' = s.vram
             /\ last' = VideoCall("set", n.tag, xy, value, s.bit, -1, n.notified, {}, {})
    /\ UNCHANGED <<cpuVars, banks, listeners, next_listener_id, keys, timerVars, decVars>>

\* VideoMemory::flip
VideoFlipCall(xy) ==
    /\ VideoAlive
    /\ \E order \in IterationOrders(listeners), failing \in FailingChoices(listeners) :
          LET f == VideoFlip(vram, xy[1], xy[2])
              n == NotifyAll(order, failing, f.change)
          IN /\ vram' = f.vram
             /\ last' = VideoCall("flip", n.tag, xy, FALSE, f.bit, -1, n.notified, {}, {})
    /\ UNCHANGED <<cpuVars, banks, listeners, next_listener_id, keys, timerVars, decVars>>

\* VideoMemory::clear
VideoClearCall ==
    /\ VideoAlive
    /\ \E order \in IterationOrders(listeners), failing \in FailingChoices(listeners) :
          LET n == NotifyAll(order, failing, OnClear)
          IN /\ vram' = VideoClear(vram)
             /\ last' = VideoCall("clear", n.tag, <<0, 0>>, FALSE, FALSE, -1, n.notified,
                                  {}, {})
    /\ UNCHANGED <<cpuVars, banks, listeners, next_listener_id, keys, timerVars, decVars>>

\* VideoMemory::attach of a new listener whose on_attach fails or not
VideoAttachCall(setup_fails, overflow) ==
    /\ VideoAlive
    /\ Cardinality(DOMAIN listeners) < MaxListeners
    /\ next_listener_id <= MaxListeners \/ next_listener_id >= 254
    /\ LET a == VideoAttach(listeners, next_listener_id, setup_fails, overflow)
       IN /\ listeners' = a.listeners
          /\ next_listener_id' = a.next
          /\ last' = VideoCall("attach", a.tag, <<0, 0>>, FALSE, FALSE, a.id, <<>>, {},
                               a.replaced)
    /\ UNCHANGED <<cpuVars, banks, vram, keys, timerVars, decVars>>

\* the identifiers the caller passes to detach: those of the attached listeners, and
\* one that attach has not handed out
DetachChoices(ls) == DOMAIN ls \cup {200}

\* VideoMemory::detach
VideoDetachCall(id, teardown_fails) ==
    /\ VideoAlive
    /\ LET t == VideoDetach(listeners, id, teardown_fails)
       IN /\ listeners' = t.listeners
          /\ last' = VideoCall("detach", t.tag, <<0, 0>>, FALSE, FALSE, id, <<>>, t.torn, {})
    /\ UNCHANGED <<cpuVars, banks, vram, next_listener_id, keys, timerVars, decVars>>

\* the video memory goes out of scope
VideoDropCall ==
    /\ VideoAlive
    /\ \E order \in IterationOrders(listeners), failing \in FailingChoices(listeners) :
          LET t == VideoDrop(listeners, order, failing)
          IN last' = VideoCall("drop", t.tag, <<0, 0>>, FALSE, FALSE, -1, <<>>, t.torn, t.lost)
    /\ listeners' = <<>>
    /\ UNCHANGED <<cpuVars, banks, vram, next_listener_id, keys, timerVars, decVars>>

NextVideo ==
    \/ \E xy \in VideoCoordinates : VideoGetCall(xy)
    \/ \E xy \in VideoCoordinates, value \in BOOLEAN : VideoSetCall(xy, value)
    \/ \E xy \in VideoCoordinates : VideoFlipCall(xy)
    \/ VideoClearCall
    \/ \E setup_fails \in BOOLEAN, overflow \in {"panic", "wrap"} :
          VideoAttachCall(setup_fails, overflow)
    \/ \E id \in DetachChoices(listeners), teardown_fails \in BOOLEAN :
          VideoDetachCall(id, teardown_fails)

SpecVideo == InitVideo /\ [][NextVideo]_vars

(***************************************************************************)
(* The listeners of a video memory alone: attach, detach and the drop, on  *)
(* a memory whose counter of identifiers is at 0 or close to its end       *)
(***************************************************************************)
NextListeners ==
    \/ \E setup_fails \in BOOLEAN, overflow \in {"panic", "wrap"} :
          VideoAttachCall(setup_fails, overflow)
    \/ \E id \in DetachChoices(listeners), teardown_fails \in BOOLEAN :
          VideoDetachCall(id, teardown_fails)
    \/ VideoDropCall

SpecListeners == InitListeners /\ [][NextListeners]_vars

(***************************************************************************)
(* Programs that write the decimal digits of every byte value              *)
(***************************************************************************)
\* 0x200: V1 := v; I := i; the BCD write of V1; 0x206: jump 0x206
ProgBcd(v, i) == <<\h6100 + v, \hA000 + i, \hF133, \h1206>>
BcdPrograms == {ProgBcd(v, i) : v \in 0 .. (WordMod - 1), i \in {\h0300, \h0FFD}}

NextBcd ==
    \/ \E prog \in BcdPrograms : Run(prog)
    \/ TickQuiet

SpecBcd == Init /\ [][NextBcd]_vars

(***************************************************************************)
(* Programs that dump registers to memory, overwrite them and load them    *)
(* back                                                                    *)
(***************************************************************************)
\* 0x200: V0, V1, V2, VF := 0x11, 0x22, 0x33, 0x44; I := i; dump V0..Vx; V0, V1, V2,
\* VF := 0xAA, 0xBB, 0xCC, 0xDD; load V0..Vx; 0x216: jump 0x216
ProgDumpLoad(x, i) ==
    <<\h6011, \h6122, \h6233, \h6F44, \hA000 + i, \hF055 + 256 * x,
      \h60AA, \h61BB, \h62CC, \h6FDD, \hF065 + 256 * x, \h1216>>
DumpLoadPrograms ==
    {ProgDumpLoad(x, i) : x \in {0, 1, 2, 3, 15}, i \in {\h0300, \h0400, \h0FF0}}

NextRegs ==
    \/ \E prog \in DumpLoadPrograms : Run(prog)
    \/ TickQuiet

SpecRegs == Init /\ [][NextRegs]_vars

(***************************************************************************)
(* The mapper read over ranges: banks registered at the two ends of the    *)
(* address space, bytes written to them, and ReadMemory::get_range called  *)
(* over ranges of them                                                     *)
(***************************************************************************)
\* the ranges of the banks and of the reads
RangeSamples ==
    {[min |-> lo, max |-> hi] : lo \in {0}, hi \in {0, 1}}
        \cup {[min |-> lo, max |-> hi] : lo \in {0, 1}, hi \in {1}}
        \cup {[min |-> lo, max |-> hi] :
                 lo \in {AddressMod - 2}, hi \in {AddressMod - 2, AddressMod - 1}}
        \cup {[min |-> lo, max |-> hi] :
                 lo \in {AddressMod - 2, AddressMod - 1}, hi \in {AddressMod - 1}}

\* ReadMemory::get_range on the mapper, over MemoryRange::new(min, max)
MemGetRange(min, max) ==
    /\ last.tag # "Panic"
    /\ LET range == MemoryRangeNew(min, max)
           r == IF range.tag = "Panic" THEN range ELSE get_range(banks, range.v)
       IN last' = [call |-> "get_range", tag |-> r.tag, error |-> r.error,
                   range |-> [min |-> min, max |-> max], value |-> r.v]
    /\ UNCHANGED <<cpuVars, banks, videoVars, keys, timerVars, decVars>>

NextRange ==
    \/ \E kind \in {"rw", "w"}, range \in RangeSamples, short \in {0, 1} :
          MemAdd(kind, range.min, range.max, range.max - range.min + 1 - short,
                 BankName(Len(banks) + 1))
    \/ \E range \in RangeSamples, value \in MemValues : MemSet(range.max, value)
    \/ \E range \in RangeSamples : MemGetRange(range.min, range.max)

SpecRange == InitMem /\ [][NextRange]_vars

(***************************************************************************)
(* Properties                                                              *)
(***************************************************************************)
\* the addresses of an inclusive range
RangeAddresses(range) == range.min .. range.max

BanksDisjoint ==
    \A i, j \in 1 .. Len(banks) :
        i # j => RangeAddresses(banks[i].range) \cap RangeAddresses(banks[j].range) = {}

\* an add call whose range shares an address with a registered bank fails and
\* leaves the list of banks as it was
AddOverlapRejected ==
    (last'.call = "add"
       /\ \E i \in 1 .. Len(banks) :
             RangeAddresses(banks[i].range) \cap RangeAddresses(last'.range) # {})
    => (last'.tag = "Err" /\ banks' = banks)

\* C2: after any sequence of add / add_read / add_write calls no address lies in two
\* registered banks, and an add whose range shares an address with a registered bank
\* returns an error and leaves the list of banks unchanged
C2_BanksNeverOverlap == [](BanksDisjoint) /\ [][AddOverlapRejected]_vars

\* C2 witness: with two banks registered, an add over a well-formed range was rejected
C2_Witness ==
    /\ Len(banks) = 2
    /\ last.call = "add"
    /\ last.tag = "Err"
    /\ last.range.min <= last.range.max

\* the fields of an instruction word
NibbleX(w) == (w \div 256) % 16
NibbleY(w) == (w \div 16) % 16
NibbleN(w) == w % 16
ByteNN(w) == w % 256
AddrNNN(w) == w % 4096

\* the recognized table of instruction words, 0NNN, 5XY0 and 9XY0 apart
TableOperation(w) ==
    LET f == w \div 4096
        x == NibbleX(w)
        y == NibbleY(w)
        n == NibbleN(w)
        nn == ByteNN(w)
        nnn == AddrNNN(w)
        arith(operation) == [op |-> "Assign", left_reg |-> x, right |-> Register(y),
                             operation |-> operation]
    IN CASE w = 0 -> [op |-> "Nop"]
         [] w = 224 -> [op |-> "ClearScreen"]
         [] w = 238 -> [op |-> "Return"]
         [] f = 1 -> [op |-> "Jump", addr |-> nnn]
         [] f = 2 -> [op |-> "Call", addr |-> nnn]
         [] f = 10 -> [op |-> "AssignAddress", addr |-> nnn]
         [] f = 11 -> [op |-> "OffsetJump", addr |-> nnn]
         [] f = 3 -> [op |-> "CondJump", left |-> Register(x), right |-> Immediate(nn),
                      cond |-> "Equal"]
         [] f = 4 -> [op |-> "CondJump", left |-> Register(x), right |-> Immediate(nn),
                      cond |-> "NotEqual"]
         [] f = 6 -> [op |-> "Assign", left_reg |-> x, right |-> Immediate(nn),
                      operation |-> "None"]
         [] f = 7 -> [op |-> "Assign", left_reg |-> x, right |-> Immediate(nn),
                      operation |-> "Add"]
         [] f = 8 /\ n = 0 -> arith("None")
         [] f = 8 /\ n = 1 -> arith("Or")
         [] f = 8 /\ n = 2 -> arith("And")
         [] f = 8 /\ n = 3 -> arith("Xor")
         [] f = 8 /\ n = 4 -> arith("Add")
         [] f = 8 /\ n = 5 -> arith("Sub")
         [] f = 8 /\ n = 7 -> arith("ReverseSub")
         [] f = 8 /\ n = 6 -> [op |-> "Shift", reg |-> x, right |-> TRUE]
         [] f = 8 /\ n = 14 -> [op |-> "Shift", reg |-> x, right |-> FALSE]
         [] f = 12 -> [op |-> "Random", reg |-> x, mask |-> nn]
         [] f = 13 -> [op |-> "Draw", x |-> x, y |-> y, height |-> n]
         [] f = 14 /\ nn = 158 -> [op |-> "CondKeyJump", reg |-> x, cond |-> "Equal"]
         [] f = 14 /\ nn = 161 -> [op |-> "CondKeyJump", reg |-> x, cond |-> "NotEqual"]
         [] f = 15 /\ nn = 7 -> [op |-> "GetDelayTimer", reg |-> x]
         [] f = 15 /\ nn = 10 -> [op |-> "BlockOnKey", reg |-> x]
         [] f = 15 /\ nn = 21 -> [op |-> "SetTimer", reg |-> x, timer |-> "Delay"]
         [] f = 15 /\ nn = 24 -> [op |-> "SetTimer", reg |-> x, timer |-> "Sound"]
         [] f = 15 /\ nn = 30 -> [op |-> "AddAddress", reg |-> x]
         [] f = 15 /\ nn = 41 -> [op |-> "GetCharacterAddress", reg |-> x]
         [] f = 15 /\ nn = 51 -> [op |-> "WriteBCD", reg |-> x]
         [] f = 15 /\ nn = 85 -> [op |-> "DumpValueRegisters", reg |-> x]
         [] f = 15 /\ nn = 101 -> [op |-> "LoadValueRegisters", reg |-> x]
         [] OTHER -> NoOpcode

\* C4: for every word of the recognized table decode returns exactly the tabled
\* operation and fields
C4_DecodeTable ==
    (dec_out # NotDecoded /\ TableOperation(dec_word) # NoOpcode)
    => (dec_out.tag = "Ok" /\ dec_out.opcode = TableOperation(dec_word))

\* C4 witness: 0x6A12 was decoded to the assignment of 0x12 to register 0xA
C4_Witness ==
    /\ dec_word = 27154
    /\ dec_out.tag = "Ok"
    /\ dec_out.opcode = [op |-> "Assign", left_reg |-> 10, right |-> Immediate(18),
                         operation |-> "None"]

\* C5: decode(5XY0) is a skip-if-equal and decode(9XY0) a skip-if-not-equal of register X
\* against register Y
C5_SkipRegisterOperands ==
    (dec_out # NotDecoded /\ dec_word \div 4096 \in {5, 9} /\ NibbleN(dec_word) = 0)
    => /\ dec_out.tag = "Ok"
       /\ dec_out.opcode = [op |-> "CondJump", left |-> Register(NibbleX(dec_word)),
                            right |-> Register(NibbleY(dec_word)),
                            cond |-> IF dec_word \div 4096 = 5 THEN "Equal" ELSE "NotEqual"]

\* the words the claim lists as unrecognized
ListedInvalid(w) ==
    \/ w \div 4096 = 8 /\ NibbleN(w) \in {8, 9, 10, 11, 12, 13, 15}
    \/ w \div 4096 = 14 /\ ByteNN(w) \notin {158, 161}
    \/ w \div 4096 = 15 /\ ByteNN(w) \notin {7, 10, 21, 24, 30, 41, 51, 85, 101}

\* C6: for every word decode returns an operation or a decode error and never panics;
\* every listed 8XYN, EXNN and FXNN yields an error carrying the word
C6_DecodeTotal ==
    dec_out # NotDecoded
    => /\ dec_out.tag \in {"Ok", "Err"}
       /\ ListedInvalid(dec_word)
            => (dec_out.tag = "Err" /\ dec_out.opcode = NoOpcode
                /\ dec_out.error.args = <<dec_word>>)

\* C6 witness: 0x8009 was decoded to an error
C6_Witness ==
    /\ dec_word = 32777
    /\ dec_out.tag = "Err"

\* the last tick executed the instruction it fetched
Executed(l) == l.call = "tick" /\ l.tag = "Ok"

\* C1: every tick runs to completion, returning success or an error value; it never
\* aborts, also when the index register or the program counter is near 0xFFFF
C1_TickCompletes == last.call = "tick" => last.tag \in {"Ok", "Err"}

\* C3: the fetch reads exactly the bytes at PC and PC + 1 and combines them big endian;
\* it succeeds whenever both addresses can be read
C3_FetchTwoBytes ==
    [][last'.call = "tick"
       => LET b0 == MapperGet(banks, program_counter)
              b1 == MapperGet(banks, AddressAdd(program_counter, 1))
          IN (b0.tag = "Ok" /\ b1.tag = "Ok") => last'.word = b0.v * 256 + b1.v]_vars

\* C7: 8XY4 leaves VX = (a + b) mod 256 and VF = 1 iff a + b > 255; 8XY5 leaves
\* VX = (a - b) mod 256 and VF = 1 iff a >= b; 8XY7 leaves VX = (b - a) mod 256 and
\* VF = 1 iff b >= a; when X is 15 the flag register holds the flag
C7_AddSubFlags ==
    [][(Executed(last') /\ last'.word \div 4096 = 8 /\ NibbleN(last'.word) \in {4, 5, 7})
       => LET x == NibbleX(last'.word)
              n == NibbleN(last'.word)
              a == values[x]
              b == values[NibbleY(last'.word)]
              res == CASE n = 4 -> (a + b) % 256
                       [] n = 5 -> (a - b + 256) % 256
                       [] n = 7 -> (b - a + 256) % 256
              flag == CASE n = 4 -> IF a + b > 255 THEN 1 ELSE 0
                        [] n = 5 -> IF a >= b THEN 1 ELSE 0
                        [] n = 7 -> IF b >= a THEN 1 ELSE 0
          IN /\ values'[15] = flag
             /\ x # 15 => values'[x] = res]_vars

\* C7 witness: 8124 ran on V1 = 0xFF and V2 = 0x02 and left V1 = 0x01 with VF = 1
C7_Witness ==
    /\ Executed(last)
    /\ last.word = \h8124
    /\ MapperGet(banks, \h0203).v = \hFF
    /\ values[2] = 2
    /\ values[1] = 1
    /\ values[15] = 1

\* the words of the arithmetic assigns: 6XNN, 7XNN and 8XY0-8XY5, 8XY7
IsAssignWord(w) ==
    \/ w \div 4096 \in {6, 7}
    \/ w \div 4096 = 8 /\ NibbleN(w) \in {0, 1, 2, 3, 4, 5, 7}

\* the arithmetic assigns that write the flag: 8XY4, 8XY5 and 8XY7
WritesFlag(w) == w \div 4096 = 8 /\ NibbleN(w) \in {4, 5, 7}

\* C8: an arithmetic assign writes the flag register only when it is a register add,
\* subtract or reverse-subtract (6XNN, 7XNN and 8XY0-8XY3 leave VF unchanged when X is
\* not 15), and leaves every value register other than VX and VF, the index register,
\* the stack, the memory and the video unchanged
C8_AssignFrame ==
    [][(Executed(last') /\ IsAssignWord(last'.word))
       => LET x == NibbleX(last'.word)
          IN /\ (~WritesFlag(last'.word) /\ x # 15) => values'[15] = values[15]
             /\ \A i \in (0 .. 15) \ {x, 15} : values'[i] = values[i]
             /\ address' = address
             /\ stack' = stack
             /\ banks' = banks
             /\ vram' = vram]_vars

\* C8 witness: 7102 ran on V1 = 0xFF, overflowed to 0x01 and left VF at 0x55
C8_Witness ==
    /\ Executed(last)
    /\ last.word = \h7102
    /\ MapperGet(banks, \h0203).v = \hFF
    /\ values[1] = 1
    /\ values[15] = \h55

\* C9: for every register X, after 8XY6 VF holds the low bit of v = VX and VX = v div 2;
\* after 8XYE VF holds the high bit of v and VX = (2 * v) mod 256
C9_ShiftFlag ==
    [][(Executed(last') /\ last'.word \div 4096 = 8 /\ NibbleN(last'.word) \in {6, 14})
       => LET x == NibbleX(last'.word)
              v == values[x]
          IN IF NibbleN(last'.word) = 6
             THEN values'[15] = v % 2 /\ values'[x] = v \div 2
             ELSE values'[15] = v \div 128 /\ values'[x] = (2 * v) % 256]_vars

\* a Call was executed and the very next executed instruction was a Return
CallThenReturn ==
    /\ Executed(last)
    /\ last.word \div 4096 = 2
    /\ Executed(last')
    /\ last'.word = \h00EE

\* C10 as stated: after a Call executed at P and the Return that follows it, the
\* program counter is P and the stack has its content of before the Call
C10_CallReturnRestoresPC ==
    [][CallThenReturn => (program_counter' = last.pc /\ stack' = last.stack)]_vars

\* C10: after a Call executed at P and the Return that follows it, the program counter
\* is P + 2, the address of the instruction after the Call, and the stack has its content
\* of before the Call
C10_CallReturnResumesAfterCall ==
    [][CallThenReturn
       => (program_counter' = AddressAdd(last.pc, 2) /\ stack' = last.stack)]_vars

\* C10 witness: the Return at 0x208 followed the Call at 0x204 made under the stack
\* <<0x200>>, and left the program counter at 0x206 under that stack
C10_Witness ==
    /\ Executed(last)
    /\ last.word = \h00EE
    /\ last.pc = \h0208
    /\ program_counter = \h0206
    /\ stack = << \h0200 >>

\* C11: Return executed on an empty call stack fails the tick with an error; the program
\* counter is not set to 0 or to any other address and the stack stays empty
C11_ReturnOnEmptyStackFails ==
    [][(last'.call = "tick" /\ last'.word = \h00EE /\ stack = <<>>)
       => /\ last'.tag = "Err"
          /\ program_counter' = program_counter
          /\ stack' = <<>>]_vars

\* C11 witness: the Return at 0x200 failed on the empty stack and left the program
\* counter at 0x200
C11_Witness ==
    /\ last.call = "tick"
    /\ last.word = \h00EE
    /\ last.stack = <<>>
    /\ last.tag = "Err"
    /\ last.error.message = "Tried to return from an empty stack"
    /\ program_counter = \h0200
    /\ stack = <<>>

\* C12: 1NNN leaves PC = NNN, BNNN leaves PC = (NNN + V0) mod 65536 and 2NNN pushes the
\* program counter it was fetched from and leaves PC = NNN, none of them followed by
\* the increment of 2; value registers, index register, memory and video are unchanged
C12_JumpsRedirect ==
    [][(Executed(last') /\ last'.word \div 4096 \in {1, 2, 11})
       => LET f == last'.word \div 4096
              nnn == AddrNNN(last'.word)
          IN /\ program_counter' = IF f = 11 THEN (nnn + values[0]) % 65536 ELSE nnn
             /\ stack' = IF f = 2 THEN Append(stack, program_counter) ELSE stack
             /\ values' = values
             /\ address' = address
             /\ banks' = banks
             /\ vram' = vram]_vars

\* C12 witness: B202 ran with V0 = 4 and left the program counter at 0x206
C12_Witness ==
    /\ Executed(last)
    /\ last.word = \hB202
    /\ values[0] = 4
    /\ program_counter = \h0206

\* the words of the conditional skips: 3XNN, 4XNN, 5XY0, 9XY0, EX9E and EXA1
IsSkipWord(w) ==
    \/ w \div 4096 \in {3, 4}
    \/ w \div 4096 \in {5, 9} /\ NibbleN(w) = 0
    \/ w \div 4096 = 14 /\ ByteNN(w) \in {\h9E, \hA1}

\* the condition of the skip w on the registers vs and the keys ks
SkipCondition(w, vs, ks) ==
    LET f == w \div 4096
        vx == vs[NibbleX(w)]
    IN CASE f = 3 -> vx = ByteNN(w)
         [] f = 4 -> vx # ByteNN(w)
         [] f = 5 -> vx = vs[NibbleY(w)]
         [] f = 9 -> vx # vs[NibbleY(w)]
         [] f = 14 /\ ByteNN(w) = \h9E -> ks[vx] \in {"Pressed", "Held"}
         [] f = 14 /\ ByteNN(w) = \hA1 -> ks[vx] \notin {"Pressed", "Held"}

\* C13: a conditional skip (3XNN, 4XNN, 5XY0, 9XY0, EX9E, EXA1 with VX in 0..15) advances
\* the program counter by exactly 4 when its condition holds and by exactly 2 when it
\* does not, and changes nothing else; the keys are those the instruction finds
C13_SkipAdvances ==
    [][(last'.call = "tick" /\ last'.word >= 0 /\ IsSkipWord(last'.word)
          /\ (last'.word \div 4096 = 14 => values[NibbleX(last'.word)] < KEY_NUM))
       => /\ last'.tag = "Ok"
          /\ program_counter' =
                (program_counter
                   + (IF SkipCondition(last'.word, values, keys') THEN 4 ELSE 2)) % 65536
          /\ values' = values
          /\ address' = address
          /\ stack' = stack
          /\ banks' = banks
          /\ vram' = vram]_vars

\* the cell of the video data that holds the pixel (x, y)
Pixel(x, y) == <<(x + 64 * y) \div 8, (x + 64 * y) % 8>>

\* C14: after a successful draw VF is 1 if at least one pixel that was set before the
\* draw was turned off by it and 0 otherwise, over the whole sprite
C14_DrawCollisionFlag ==
    [][(Executed(last') /\ last'.word \div 4096 = 13)
       => values'[15] = IF vram \ vram' # {} THEN 1 ELSE 0]_vars

\* C14 witness: the second draw of ProgDrawCollide turned pixel (2, 0) off in its first
\* row, set pixel (2, 3) in its last row without a collision, and left VF = 1
C14_Witness ==
    /\ Executed(last)
    /\ last.word = \hD004
    /\ last.pc = \h0206
    /\ Pixel(2, 0) \notin vram
    /\ Pixel(0, 0) \in vram
    /\ Pixel(2, 3) \in vram
    /\ values[15] = 1

\* the addresses I .. I + N - 1 of the sprite rows of the draw w
SpriteAddresses(w) == {(address + r) % 65536 : r \in 0 .. (NibbleN(w) - 1)}

\* the pixels the sprite of the draw w flips: row r, bit c (most significant first) of
\* the byte at I + r flips ((VX + c) mod 64, (VY + r) mod 32)
SpritePixels(w) ==
    {Pixel((values[NibbleX(w)] + c) % 64, (values[NibbleY(w)] + r) % 32) :
        <<r, c>> \in {rc \in (0 .. (NibbleN(w) - 1)) \X (0 .. 7) :
                        (MapperGet(banks, (address + rc[1]) % 65536).v
                            \div (2 ^ (7 - rc[2]))) % 2 = 1}}

\* C15: a draw reads exactly the N bytes at I .. I + N - 1: it succeeds whenever those
\* addresses are readable, whether or not I + N is mapped; with N = 0 it reads no memory,
\* flips no pixel and leaves VF at 0; row r, bit c flips ((VX + c) mod 64, (VY + r) mod 32)
C15_DrawReadsRows ==
    [][(last'.call = "tick" /\ last'.word >= 0 /\ last'.word \div 4096 = 13
          /\ \A a \in SpriteAddresses(last'.word) : MapperGet(banks, a).tag = "Ok")
       => /\ last'.tag = "Ok"
          /\ (vram \ vram') \cup (vram' \ vram) = SpritePixels(last'.word)
          /\ NibbleN(last'.word) = 0 => (vram' = vram /\ values'[15] = 0)]_vars

\* the keys that are down in ks
DownKeys(ks) == {k \in 0 .. 15 : ks[k] \in {"Pressed", "Held"}}

\* C16: a tick on FX0A succeeds; while no key is down when it executes it leaves the
\* program counter, all registers and the stack unchanged, so the next tick executes it
\* again; when some key is down VX receives the lowest index of a down key and the
\* program counter advances by exactly 2
C16_BlockOnKey ==
    [][(last'.call = "tick" /\ last'.word >= 0 /\ last'.word \div 4096 = 15
          /\ ByteNN(last'.word) = \h0A)
       => /\ last'.tag = "Ok"
          /\ IF DownKeys(keys') = {}
             THEN /\ program_counter' = program_counter
                  /\ values' = values
                  /\ address' = address
                  /\ stack' = stack
             ELSE /\ program_counter' = (program_counter + 2) % 65536
                  /\ values' = [values EXCEPT ![NibbleX(last'.word)] =
                                    CHOOSE k \in DownKeys(keys') :
                                        \A j \in DownKeys(keys') : k <= j]
                  /\ address' = address
                  /\ stack' = stack]_vars

\* C16 witness: F30A ran with the keys 3 and 5 down, took 3 into V3 and moved on to 0x202
C16_Witness ==
    /\ Executed(last)
    /\ last.word = \hF30A
    /\ DownKeys(keys) = {3, 5}
    /\ values[3] = 3
    /\ program_counter = \h0202

\* C16 witness of the wait: F30A ran a second time at 0x200 with no key down
C16_WitnessWaiting ==
    /\ Executed(last)
    /\ last.word = \hF30A
    /\ DownKeys(keys) = {}
    /\ program_counter = \h0200
    /\ delay_accumulator # 0

\* a counter that started at start, after the whole periods of total nanoseconds
Decayed(start, total) ==
    IF start > total \div DELAY_FREQUENCY THEN start - total \div DELAY_FREQUENCY ELSE 0

\* C17: the delay counter decays by one per elapsed period however the elapsed time is
\* split over the calls of Timers::tick and never goes below zero (from 10, after
\* exactly 10 periods it is 0, and a counter at 0 stays 0); after every tick the
\* accumulator holds less than one period
C17_DelayDecay ==
    /\ delay_timer = Decayed(last.delay_start, last.total)
    /\ delay_accumulator = last.total % DELAY_FREQUENCY
    /\ delay_accumulator < DELAY_FREQUENCY
    /\ (last.delay_start = 10 /\ last.total = 10 * DELAY_FREQUENCY) => delay_timer = 0
    /\ last.delay_start = 0 => delay_timer = 0

\* C17 witness: a delay counter of 10 is at 0 after exactly 10 periods
C17_Witness ==
    /\ last.delay_start = 10
    /\ last.total = 10 * DELAY_FREQUENCY
    /\ delay_timer = 0
    /\ delay_accumulator = 0

\* C18: the sound counter decrements on the schedule of the delay counter: by one per
\* period consumed, down to zero
C18_SoundDecay == sound_timer = Decayed(last.sound_start, last.total)

\* tick changes no Held or Released cell and leaves no Pressed one
TickDemotesPressed ==
    last'.call = "input_tick"
    => \A i \in 0 .. 15 : keys'[i] = IF keys[i] = "Pressed" THEN "Released" ELSE keys[i]

\* press, hold and release of a key k in 0..15 change only cell k; after press and hold
\* the key is down, after release it is not
SetChangesOneKey ==
    (last'.call \in {"press", "hold", "release"} /\ last'.k \in 0 .. 15)
    => /\ last'.tag = "Ok"
       /\ \A i \in (0 .. 15) \ {last'.k} : keys'[i] = keys[i]
       /\ (last'.k \in DownKeys(keys')) = (last'.call # "release")

\* press(k) followed by tick() leaves the key k not down
PressThenTick ==
    (last.call = "press" /\ last.k \in 0 .. 15 /\ last'.call = "input_tick")
    => last.k \notin DownKeys(keys')

\* a held key stays down over a tick
HeldOverTick ==
    last'.call = "input_tick"
    => \A k \in 0 .. 15 : keys[k] = "Held" => k \in DownKeys(keys')

\* C19: for every key k, press(k) then tick() makes is_down(k) false; hold(k) followed
\* by any number of tick() calls keeps is_down(k) true until release(k), after which it
\* is false; tick() changes no Held or Released cell; press, hold and release change
\* only cell k
C19_KeyDebounce ==
    [][TickDemotesPressed /\ SetChangesOneKey /\ PressThenTick /\ HeldOverTick]_vars

\* C19 witness: press(3) then tick() left key 3 not down while key 15, held before,
\* stayed down
C19_Witness ==
    /\ last.call = "input_tick"
    /\ last.before = "press"
    /\ last.before_k = 3
    /\ keys[3] = "Released"
    /\ keys[15] = "Held"

\* the error of a write to address a of the digits ROM: the mapper's message with the
\* address and the bank, caused by the wrapper's 'write not supported'
RomWriteError(a) ==
    [message |-> "Unable to write to address in bank",
     args |-> <<a, <<"Digits ROM", 0, 79>>>>,
     cause |-> <<[message |-> "Write not supported for this memory", args |-> <<>>,
                  cause |-> <<>>]>>]

\* the 0x50 bytes at 0x0000-0x004F hold the font table
FontIntact ==
    \A a \in 0 .. 79 :
        MapperGet(banks, a) = [tag |-> "Ok", v |-> DIGITS_ROM_DATA[a + 1], error |-> NoError]

\* a direct set of any address of the range fails with the chained error
DirectSetRejected ==
    \A a \in 0 .. 79, value \in {0, 255} :
        LET w == MapperSet(banks, a, value)
        IN w.tag = "Err" /\ w.error = RomWriteError(a)

\* the address FX33 (I + 2) or FX55 (I) writes first
FirstWritten(w) == IF ByteNN(w) = \h33 THEN (address + 2) % 65536 ELSE address

\* a BCD write or a register dump whose first write goes to the range fails with the
\* chained error and changes no byte
InstructionWriteRejected ==
    (last'.call = "tick" /\ last'.word >= 0 /\ last'.word \div 4096 = 15
       /\ ByteNN(last'.word) \in {\h33, \h55} /\ FirstWritten(last'.word) \in 0 .. 79)
    => /\ last'.tag = "Err"
       /\ last'.error = RomWriteError(FirstWritten(last'.word))
       /\ banks' = banks

\* C20: on a CPU built by CPU::new the bytes at 0x0000-0x004F keep the font table
\* forever: every write routed to that range (BCD write, register dump, direct set)
\* fails with an error that chains the 'write not supported' cause with the address
\* and the bank, and changes no byte
C20_FontReadOnly ==
    [](FontIntact /\ DirectSetRejected) /\ [][InstructionWriteRejected]_vars

\* C20 witness: F033 with I = 0x04D tried to write the units to 0x04F and failed
C20_Witness ==
    /\ last.call = "tick"
    /\ last.word = \hF033
    /\ address = \h04D
    /\ last.tag = "Err"
    /\ last.error = RomWriteError(\h04F)
    /\ FontIntact

\* the banks an error of add names: the Display of each bank written into its message
NamedBanks(error) == {error.args[k] : k \in 1 .. Len(error.args)}

\* the registered banks whose range shares an address with the range of the add call
OverlappedBanks(bs, range) ==
    {i \in 1 .. Len(bs) : RangeAddresses(bs[i].range) \cap RangeAddresses(range) # {}}

\* a rejected add names every registered bank its range overlaps
AddErrorNamesRegistered ==
    (last'.call = "add" /\ last'.tag = "Err")
    => \A i \in OverlappedBanks(banks, last'.range) :
          BankDisplay(banks[i]) \in NamedBanks(last'.error)

\* a rejected add names the bank that was being registered
AddErrorNamesNew ==
    (last'.call = "add" /\ last'.tag = "Err")
    => \E b \in NamedBanks(last'.error) : b[1] = last'.name

\* C21: the error of an add over a range that overlaps registered banks names every
\* registered bank whose range overlaps the new range, and the bank being registered
C21_OverlapErrorNamesBoth ==
    [][AddErrorNamesRegistered /\ AddErrorNamesNew]_vars

\* no registered bank has the address in its range
Unmapped(bs, addr) == \A i \in 1 .. Len(bs) : addr \notin RangeAddresses(bs[i].range)

\* a get or a set of an unmapped address fails with the error that names the address,
\* and leaves every bank as it was
UnmappedAccessFails ==
    (last'.call \in {"get", "set"} /\ Unmapped(banks, last'.addr))
    => /\ last'.tag = "Err"
       /\ last'.error = Error("No bank mapped to address", <<last'.addr>>)
       /\ banks' = banks

\* C22: for every address that no registered bank contains, get and set both fail with
\* the 'No bank mapped to address' error naming the address, and the failed set changes
\* no byte of any bank
C22_UnmappedAccessFails == [][UnmappedAccessFails]_vars

\* C22 witness: a set of an address between or beyond the registered banks was rejected
\* as unmapped while a bank holding a written byte was registered
C22_Witness ==
    /\ last.call = "set"
    /\ last.tag = "Err"
    /\ last.error.message = "No bank mapped to address"
    /\ \E i \in 1 .. Len(banks) : \E o \in DOMAIN banks[i].mem.cells : banks[i].mem.cells[o] # 0

\* a tick that fetched a native-call word decoded it to CallNative(NNN), failed with
\* the 'Opcode not supported' error naming the operation, and left the program
\* counter, the registers, the stack, the memory and the video memory as they were
NativeCallFails ==
    (last'.call = "tick" /\ last'.word \in NativeWords)
    => /\ last'.opcode = [op |-> "CallNative", addr |-> last'.word]
       /\ last'.tag = "Err"
       /\ last'.error = Error("Opcode not supported", <<last'.opcode>>)
       /\ program_counter' = program_counter
       /\ values' = values
       /\ address' = address
       /\ stack' = stack
       /\ banks' = banks
       /\ vram' = vram

\* C23: every word 0NNN other than 0x0000, 0x00E0 and 0x00EE decodes to the native
\* call of NNN, and the tick that executes it fails with the 'Opcode not supported'
\* error: the program counter is not advanced and no register, stack, memory or video
\* state changes
C23_NativeCallUnsupported == [][NativeCallFails]_vars

\* C23 witness: the native call 0FFF was fetched at 0x204 and failed the tick, with VA
\* and the index register holding what the two instructions before it left
C23_Witness ==
    /\ last.call = "tick"
    /\ last.word = \h0FFF
    /\ last.pc = \h0204
    /\ last.tag = "Err"
    /\ last.error.message = "Opcode not supported"
    /\ program_counter = \h0204
    /\ values[10] = \h12
    /\ address = \h0345

\* the tick failed at the fetch, at the decoding, on an operation that is not
\* implemented or on a return from an empty stack
FailedEarly(l) ==
    /\ l.call = "tick"
    /\ l.tag = "Err"
    /\ \/ l.word = -1
       \/ l.opcode = NoOpcode
       \/ l.error.message = "Opcode not supported"
       \/ l.opcode.op = "Return"

\* the engine's registers, stack, memory and video memory are left as they were
EngineUnchanged ==
    /\ values' = values
    /\ address' = address
    /\ program_counter' = program_counter
    /\ stack' = stack
    /\ banks' = banks
    /\ vram' = vram

\* a tick that fails early changes nothing but the timers and the keys
FailedTickFrame == FailedEarly(last') => EngineUnchanged

\* the operation the tick executed is a jump, an offset jump, a call, a skip whose
\* condition holds on the registers and keys it finds, or a wait for a key with no key
\* down
Redirects(l, vs, ks) ==
    \/ l.opcode.op \in {"Jump", "OffsetJump", "Call"}
    \/ IsSkipWord(l.word) /\ SkipCondition(l.word, vs, ks)
    \/ l.opcode.op = "BlockOnKey" /\ DownKeys(ks) = {}

\* a successful tick on any other operation advances the program counter by 2
PlainTickAdvances ==
    (Executed(last') /\ ~Redirects(last', values, keys'))
    => program_counter' = AddressAdd(program_counter, 2)

\* as PlainTickAdvances, with the return counted among the operations that redirect
PlainTickAdvancesButReturn ==
    (Executed(last') /\ ~Redirects(last', values, keys') /\ last'.opcode.op # "Return")
    => program_counter' = AddressAdd(program_counter, 2)

\* C24: a tick that fails at the fetch, at the decoding, on an unsupported operation or
\* on a return from an empty stack leaves the value registers, the index register, the
\* program counter, the call stack, the memory and the video memory exactly as before
\* (only the timers and the keys may have advanced), and a tick that succeeds on an
\* operation other than a jump, an offset jump, a call, a taken skip or an unsatisfied
\* wait for a key advances the program counter by exactly 2
C24_TickFrame == [][FailedTickFrame /\ PlainTickAdvances]_vars

\* the cell of the pixel that the coordinates of the call l address under the wrap
WrappedPixel(l) == Pixel(l.x % 64, l.y % 32)

\* get returns the pixel at (x mod 64, y mod 32)
GetReadsWrapped ==
    last'.call = "get" => (last'.tag = "Ok" /\ last'.result = (WrappedPixel(last') \in vram))

\* set gives the pixel at (x mod 64, y mod 32) the value, so that get of the same
\* coordinates returns it, and leaves the other pixels
SetWritesWrapped ==
    last'.call = "set"
    => /\ vram' = IF last'.value THEN vram \cup {WrappedPixel(last')}
                  ELSE vram \ {WrappedPixel(last')}
       /\ VideoGet(vram', last'.x, last'.y) = last'.value

\* flip inverts the pixel at (x mod 64, y mod 32), returns its new value and leaves the
\* other pixels
FlipInvertsWrapped ==
    last'.call = "flip"
    => /\ vram' = IF WrappedPixel(last') \in vram THEN vram \ {WrappedPixel(last')}
                  ELSE vram \cup {WrappedPixel(last')}
       /\ last'.result = (WrappedPixel(last') \in vram')

\* clear leaves no pixel set
ClearUnsetsAll == last'.call = "clear" => vram' = {}

\* a call that fails does so with the error of a listener it called, not for its
\* coordinates
NoBoundsError ==
    (last'.call \in {"get", "set", "flip"} /\ last'.tag # "Ok")
    => (last'.error = ListenerError /\ last'.notified # <<>>)

\* C25: get, set and flip address the pixel (x mod 64, y mod 32) for all x and y and
\* never fail with a bounds error; set(x, y, v) makes a following get(x, y) return v,
\* flip(x, y) inverts that pixel and returns its new value, both leave every other
\* pixel unchanged, and clear leaves every pixel unset
C25_VideoCoordinatePolicy ==
    [][GetReadsWrapped /\ SetWritesWrapped /\ FlipInvertsWrapped /\ ClearUnsetsAll
         /\ NoBoundsError]_vars

\* C25 witness: set(64, 32, true) turned pixel (0, 0) on while pixel (63, 31) stayed on
C25_Witness ==
    /\ last.call = "set"
    /\ last.x = 64
    /\ last.y = 32
    /\ last.value
    /\ ~last.result
    /\ vram = {Pixel(0, 0), Pixel(63, 31)}

\* the call l changes the video data and returned Ok
SuccessfulChange(l) == l.call \in {"set", "flip", "clear"} /\ l.tag = "Ok"

\* a successful set, flip or clear made the matching callback once on each attached
\* listener
NotifiesEachOnce ==
    SuccessfulChange(last')
    => /\ Len(last'.notified) = Cardinality(DOMAIN listeners)
       /\ {last'.notified[k].id : k \in DOMAIN last'.notified} = DOMAIN listeners
       /\ \A k \in DOMAIN last'.notified :
             last'.notified[k].change.cb =
                IF last'.call = "clear" THEN "on_clear" ELSE "on_change"

\* the callbacks were made in the order in which the listeners were attached
NotifiesInAttachOrder ==
    SuccessfulChange(last')
    => \A j, k \in DOMAIN last'.notified :
          j < k => listeners[last'.notified[j].id].order
                      < listeners[last'.notified[k].id].order

\* C26: every successful set, flip and clear invokes the matching callback (on_change
\* or on_clear) on every currently attached listener exactly once, in the order in
\* which the listeners were attached
C26_NotifyInAttachOrder == [][NotifiesEachOnce /\ NotifiesInAttachOrder]_vars

\* an on_change callback names a cell of the grid, and the value that cell has after
\* the call
NamesModifiedPixel(change, after) ==
    change.cb = "on_change"
    => /\ change.x \in 0 .. (BIT_WIDTH - 1)
       /\ change.y \in 0 .. (BIT_HEIGHT - 1)
       /\ change.value = (Pixel(change.x, change.y) \in after)

\* the on_change callbacks of a tick name the pixels its draw modified
DrawChangesNamePixels ==
    last'.call = "tick"
    => \A k \in DOMAIN last'.notified : NamesModifiedPixel(last'.notified[k], vram')

\* as DrawChangesNamePixels, the coordinates taken modulo the width and the height
DrawChangesNameWrappedPixels ==
    last'.call = "tick"
    => \A k \in DOMAIN last'.notified :
          LET c == last'.notified[k]
          IN NamesModifiedPixel([c EXCEPT !.x = @ % BIT_WIDTH, !.y = @ % BIT_HEIGHT], vram')

\* C27: each on_change notification carries the coordinates of the pixel that was
\* modified, a column in 0..63 and a row in 0..31, together with that pixel's new value,
\* also for the pixels a draw reaches through wraparound (VX + column >= 64 or
\* VY + row >= 32)
C27_ChangeCarriesPixel == [][DrawChangesNamePixels]_vars

\* attach succeeded in the call l
Attached(l) == l.call = "attach" /\ l.tag = "Ok"

\* the identifier attach returns is not held by an attached listener
AttachIdNotHeld == Attached(last') => last'.id \notin DOMAIN listeners

\* the counter the identifiers come from only goes up
CounterIncreases == Attached(last') => next_listener_id' > next_listener_id

\* C28: attach returns identifiers from a monotonically increasing counter and never
\* returns an identifier that is currently held by an attached listener; an identifier
\* is handed out again only after the listener holding it was detached
C28_AttachIdsFresh == [][AttachIdNotHeld /\ CounterIncreases]_vars

\* the listeners recorded in ls
Recorded(ls) == {ls[i] : i \in DOMAIN ls}

\* an attach whose on_attach fails records nothing and takes no identifier; one that
\* succeeds records the listener under the identifier it returns
SetupBeforeRecord ==
    last'.call = "attach"
    => IF last'.tag = "Ok"
       THEN last'.id \in DOMAIN listeners' /\ listeners'[last'.id] \notin Recorded(listeners)
       ELSE listeners' = listeners /\ next_listener_id' = next_listener_id

\* every listener that is recorded before a call and not after it was given on_detach
\* in the call, and none was dropped without it
TeardownBeforeDiscard ==
    /\ (Recorded(listeners) \ Recorded(listeners')) \subseteq last'.torn
    /\ last'.lost = {}

\* detach of an identifier that is not held is Ok and changes nothing
DetachUnknownIsNoOp ==
    (last'.call = "detach" /\ last'.id \notin DOMAIN listeners)
    => (last'.tag = "Ok" /\ listeners' = listeners /\ last'.torn = {})

\* C29: a listener is given on_attach before it is recorded, and one whose setup fails
\* is not recorded and consumes no identifier; every recorded listener is given
\* on_detach before it is discarded, at detach(id) or at the drop of the video memory,
\* and none is discarded or replaced without it; detach of an unknown identifier
\* succeeds without effect
C29_ListenerLifecycle ==
    [][SetupBeforeRecord /\ TeardownBeforeDiscard /\ DetachUnknownIsNoOp]_vars

\* the banks after the three digits of v are stored at a, a + 1 and a + 2
WithDigits(bs, a, v) ==
    LET h == MapperSet(bs, a, v \div 100).v
        t == MapperSet(h, AddressAdd(a, 1), (v \div 10) % 10).v
    IN MapperSet(t, AddressAdd(a, 2), v % 10).v

\* a successful BCD write of VX leaves the hundreds digit at I, the tens digit at I + 1
\* and the ones digit at I + 2, and nothing else changed in the memory or the registers
BcdStoresDigits ==
    (Executed(last') /\ last'.opcode.op = "WriteBCD")
    => LET v == values[last'.opcode.reg]
       IN /\ MapperGet(banks', address).v = v \div 100
          /\ MapperGet(banks', AddressAdd(address, 1)).v = (v \div 10) % 10
          /\ MapperGet(banks', AddressAdd(address, 2)).v = v % 10
          /\ banks' = WithDigits(banks, address, v)
          /\ values' = values
          /\ address' = address

\* C30: for every byte value v = VX a successful FX33 stores v div 100 at address I,
\* (v div 10) mod 10 at I + 1 and v mod 10 at I + 2, and changes no other memory
\* address, no register and not the index register
C30_BcdDigits == [][BcdStoresDigits]_vars

\* C30 witness: F133 with V1 = 234 and I = 0x300 left 2, 3 and 4 at 0x300..0x302
C30_Witness ==
    /\ Executed(last)
    /\ last.word = \hF133
    /\ values[1] = 234
    /\ address = \h0300
    /\ MapperGet(banks, \h0300).v = 2
    /\ MapperGet(banks, \h0301).v = 3
    /\ MapperGet(banks, \h0302).v = 4

\* the addresses at which the banks bs hold a cell that was written
WrittenAddresses(bs) ==
    UNION {{AddressAdd(bs[k].range.min, o) : o \in DOMAIN bs[k].mem.cells} :
              k \in 1 .. Len(bs)}

\* the addresses I .. I + X of a dump or a load of V0..VX
TransferAddresses(x) == {AddressAdd(address, i) : i \in 0 .. x}

\* a successful dump leaves Vi at I + i for i in 0..X, and leaves the other addresses,
\* the registers and the index register
DumpCopiesRegisters ==
    (Executed(last') /\ last'.opcode.op = "DumpValueRegisters")
    => LET x == last'.opcode.reg
       IN /\ \A i \in 0 .. x : MapperGet(banks', AddressAdd(address, i)).v = values[i]
          /\ \A a \in (WrittenAddresses(banks) \cup WrittenAddresses(banks'))
                         \ TransferAddresses(x) :
                MapperGet(banks', a) = MapperGet(banks, a)
          /\ values' = values
          /\ address' = address

\* a successful load leaves the byte at I + i in Vi for i in 0..X, and leaves the
\* registers above X, the memory and the index register
LoadCopiesMemory ==
    (Executed(last') /\ last'.opcode.op = "LoadValueRegisters")
    => LET x == last'.opcode.reg
       IN /\ \A i \in 0 .. x : values'[i] = MapperGet(banks, AddressAdd(address, i)).v
          /\ \A i \in (x + 1) .. 15 : values'[i] = values[i]
          /\ banks' = banks
          /\ address' = address

\* the registers V0..VX hold after the load at 0x214 what they held at the dump
DumpLoadRestores ==
    (Executed(last) /\ last.pc = \h0214 /\ last.opcode.op = "LoadValueRegisters")
    => \A i \in 0 .. last.opcode.reg :
          values[i] = (CASE i = 0 -> \h11 [] i = 1 -> \h22 [] i = 2 -> \h33
                         [] i = 15 -> \h44 [] OTHER -> 0)

\* C31: FX55 copies exactly V0..VX to the addresses I..I+X and FX65 copies the
\* addresses I..I+X into V0..VX; the registers above X, the memory outside I..I+X and
\* the index register are unchanged, so a dump followed by a load with the same X and I
\* restores V0..VX
C31_DumpLoad ==
    /\ [][DumpCopiesRegisters /\ LoadCopiesMemory]_vars
    /\ [](DumpLoadRestores)

\* C31 witness: after the dump and the load of V0..V1 at I = 0x300, V0 and V1 are back
\* at 0x11 and 0x22 while V2 and VF keep the values written in between
C31_Witness ==
    /\ Executed(last)
    /\ last.word = \hF165
    /\ last.pc = \h0214
    /\ address = \h0300
    /\ values[0] = \h11
    /\ values[1] = \h22
    /\ values[2] = \hCC
    /\ values[15] = \hDD
    /\ MapperGet(banks, \h0301).v = \h22
    /\ MapperGet(banks, \h0302).v = 0

\* the error of a key index of 16 or more
KeyBoundsError == Error("Key index out of bounds", <<>>)

\* indexes that are no key: the first one, and the largest a register and a byte pair
\* can hold
NoKeyIndexes == {16, 17, 255, 65535}

\* on the key cells ks, is_down and set_state (press, hold and release) of an index that
\* is no key return the bounds error
BufferRejectsIndex(ks) ==
    \A k \in NoKeyIndexes :
       /\ is_down(ks, k).tag = "Err"
       /\ is_down(ks, k).error = KeyBoundsError
       /\ \A state \in {"Pressed", "Held", "Released"} :
             /\ set_state(ks, k, state).tag = "Err"
             /\ set_state(ks, k, state).error = KeyBoundsError

\* a press, hold or release that returns an error leaves every key cell
InputErrorKeepsKeys ==
    (last'.call \in {"press", "hold", "release"} /\ last'.tag = "Err") => keys' = keys

\* a tick that fetched EX9E or EXA1 with VX >= 16 failed with the bounds error and left
\* the program counter, the registers and the stack
KeySkipRejectsIndex ==
    (last'.call = "tick" /\ last'.word >= 0 /\ last'.word \div 4096 = 14
       /\ ByteNN(last'.word) \in {\h9E, \hA1} /\ values[NibbleX(last'.word)] >= KEY_NUM)
    => /\ last'.tag = "Err"
       /\ last'.error = KeyBoundsError
       /\ program_counter' = program_counter
       /\ values' = values
       /\ stack' = stack

DrawnTwice ==
    /\ Executed(last)
    /\ Executed(last')
    /\ last.opcode.op = "Draw"
    /\ last'.word = last.word
    /\ values[NibbleX(last.word)] = last.values[NibbleX(last.word)]
    /\ values[NibbleY(last.word)] = last.values[NibbleY(last.word)]

\* the second draw brings the video data back to what it was before the first
SecondDrawRestores == DrawnTwice => vram' = last.vram

\* the second draw of a sprite with a set bit leaves VF = 1
SecondDrawCollides ==
    (DrawnTwice /\ SpritePixels(last.word) # {}) => values'[15] = 1

\* the second draw leaves VF = 1 when a pixel of the sprite was unset before the first
\* draw, and VF = 0 when none was
SecondDrawCollidesOnSet ==
    DrawnTwice
    => values'[15] = IF SpritePixels(last.word) \ last.vram # {} THEN 1 ELSE 0

\* C33 as stated: drawing the same sprite twice in a row with the same VX, VY, index
\* register and height restores the video data to its content before the first draw,
\* and if the sprite has at least one set bit the second draw leaves VF at 1
C33_DrawTwiceAlwaysCollides == [][SecondDrawRestores /\ SecondDrawCollides]_vars

\* C33: drawing the same sprite twice in a row with the same VX, VY, index register and
\* height restores the video data to its content before the first draw; the second
\* draw leaves VF at 1 if at least one set bit of the sprite fell on a pixel that was
\* unset before the first draw, and at 0 otherwise
C33_DrawTwiceRestores == [][SecondDrawRestores /\ SecondDrawCollidesOnSet]_vars

\* C33 witness: the third draw of the glyph at (62, 31), the second of the pair made
\* with the draw before it, turned the wrapped glyph on again and left VF = 0
C33_Witness ==
    /\ Executed(last)
    /\ last.word = \hD015
    /\ last.pc = \h020A
    /\ last.values[0] = \h3E
    /\ last.vram = {}
    /\ Pixel(1, 31) \in vram
    /\ Pixel(62, 0) \in vram
    /\ values[15] = 0

\* the addresses of the range that cannot be read from the banks bs
FailingReads(bs, range) == {a \in RangeAddresses(range) : MapperGet(bs, a).tag = "Err"}

\* the bytes of the range in the banks bs, in ascending order of address
BytesOf(bs, range) ==
    [i \in 1 .. (range.max - range.min + 1) |-> MapperGet(bs, range.min + i - 1).v]

\* C34: get_range over [min, max] terminates for every range, also with max = 0xFFFF;
\* it returns the bytes at min..max, each once and in ascending order, when every
\* address of the range can be read, and otherwise the error of the first address of
\* the range that cannot be read
C34_RangeIteration ==
    last.call = "get_range"
    => LET failing == FailingReads(banks, last.range)
       IN /\ last.tag \in {"Ok", "Err"}
          /\ failing = {}
             => /\ last.tag = "Ok"
                /\ last.value = BytesOf(banks, last.range)
          /\ failing # {}
             => /\ last.tag = "Err"
                /\ \E a \in failing :
                      /\ \A b \in failing : a <= b
                      /\ last.error = MapperGet(banks, a).error

\* the same for the ranges that end below 0xFFFF
RangeIterationBelowTop == last.range.max < AddressMod - 1 => C34_RangeIteration

\* a Call executed at P pushes P on the stack
CallPushes ==
    (Executed(last') /\ last'.opcode.op = "Call")
    => /\ stack' = Append(stack, last'.pc)
       /\ Len(stack') = Len(stack) + 1

\* an executed Return pops the most recent address A and resumes at A + 2
ReturnPops ==
    (Executed(last') /\ last'.opcode.op = "Return")
    => /\ stack # <<>>
       /\ stack' = SubSeq(stack, 1, Len(stack) - 1)
       /\ Len(stack') = Len(stack) - 1
       /\ program_counter' = AddressAdd(stack[Len(stack)], 2)

\* every other step, a failed tick included, leaves the stack
OthersKeepStack ==
    ~(Executed(last') /\ last'.opcode.op \in {"Call", "Return"}) => stack' = stack

\* C35: the call stack is changed only by Call, which pushes the address of the call
\* instruction, and by a successful Return, which pops the most recent address and
\* resumes 2 after it; push and pop act on the same end, so nested calls are returned
\* from in the reverse order and matching returns leave the stack as it was before
\* the calls
C35_StackDiscipline == [][CallPushes /\ ReturnPops /\ OthersKeepStack]_vars

\* C35 witness: after the calls at 0x200 and 0x204 and the return at 0x208, the return
\* at 0x206 resumed at 0x202 and left the stack empty, as before the first call
C35_Witness ==
    /\ Executed(last)
    /\ last.opcode.op = "Return"
    /\ last.pc = \h0206
    /\ last.stack = << \h0200 >>
    /\ stack = <<>>
    /\ program_counter = \h0202

\* after the input tick of an engine tick every key cell is Released or Held
KeysSettled ==
    last.call = "tick" => \A k \in 0 .. (KEY_NUM - 1) : keys[k] \in {"Released", "Held"}

\* were the cell of a key Pressed when InputManager::tick starts, the cell would not be
\* Pressed when it ends, whatever the pending events, and the key would be down after
\* it only if one of the events was its key-down
PressedDemoted ==
    \A k \in 0 .. (KEY_NUM - 1), events \in EventBatches :
       LET ks == InputManagerTick([keys EXCEPT ![k] = "Pressed"], events)
       IN /\ ks[k] # "Pressed"
          /\ is_down(ks, k).v
             => \E j \in 1 .. Len(events) : events[j] = [chip8_key |-> k, bKeyDown |-> 1]

\* an executed block-on-key that moved on stored a Held key, and an executed key skip
\* compared against Held
KeyInstructionsSeeHeld ==
    /\ (Executed(last') /\ last'.opcode.op = "BlockOnKey"
           /\ program_counter' # program_counter)
       => keys'[values'[last'.opcode.reg]] = "Held"
    /\ (Executed(last') /\ last'.opcode.op = "CondKeyJump")
       => ((program_counter' = AddressAdd(program_counter, 4))
              <=> CondEvaluate(last'.opcode.cond,
                               keys'[values[last'.opcode.reg]] = "Held", TRUE))

\* C36: whenever the engine executes an instruction every key cell is Released or Held,
\* none is Pressed: InputManager::tick ends with the demotion of the buffer's tick, so
\* a Pressed cell is gone before block-on-key or a key skip reads the keys, and these
\* see a key down exactly when it is Held
C36_NoPressedAtExecution ==
    [](KeysSettled) /\ [](PressedDemoted) /\ [][KeyInstructionsSeeHeld]_vars

\* C36 witness: the skip E19E at 0x204 ran while key 5 was Held and every other key
\* Released, and skipped to 0x208
C36_Witness ==
    /\ Executed(last)
    /\ last.word = \hE19E
    /\ last.pc = \h0204
    /\ keys[5] = "Held"
    /\ \A k \in (0 .. (KEY_NUM - 1)) \ {5} : keys[k] = "Released"
    /\ program_counter = \h0208

\* the addresses read and written on the mapper
MemAddresses == 0 .. (MemTop + 1)

\* the banks of bs whose range contains the address
ContainingBanks(bs, addr) == {i \in 1 .. Len(bs) : contains(bs[i].range, addr)}

\* the same banks registered in every order
Reordered(bs) ==
    LET n == Len(bs)
        perms == {p \in [1 .. n -> 1 .. n] : \A i, j \in 1 .. n : p[i] = p[j] => i = j}
    IN {[i \in 1 .. n |-> bs[p[i]]] : p \in perms}

\* at most one bank contains an address; get and set on it succeed exactly when the bank
\* allows the access and addr - bank.min is inside its memory, get returning the cell
\* at that offset; with no bank containing the address both fail
DelegatesToUniqueBank ==
    \A addr \in MemAddresses :
       LET hits == ContainingBanks(banks, addr)
           g == MapperGet(banks, addr)
       IN /\ Cardinality(hits) <= 1
          /\ hits = {}
             => /\ g.tag = "Err"
                /\ \A v \in MemValues : MapperSet(banks, addr, v).tag = "Err"
          /\ \A i \in hits :
                LET b == banks[i]
                    o == addr - b.range.min
                IN /\ g.tag = "Ok" <=> (b.kind # "w" /\ o < b.mem.len)
                   /\ g.tag = "Ok"
                      => g.v = IF o \in DOMAIN b.mem.cells THEN b.mem.cells[o] ELSE 0
                   /\ \A v \in MemValues :
                         LET s == MapperSet(banks, addr, v)
                         IN /\ s.tag = "Ok" <=> (b.kind # "r" /\ o < b.mem.len)
                            /\ s.tag = "Ok" => s.v[i].mem.cells[o] = v

\* get and set give the same results, and set leaves the same readable content, when
\* the same banks are registered in another order
OrderIndependent ==
    \A bs \in Reordered(banks), addr \in MemAddresses :
       /\ MapperGet(bs, addr) = MapperGet(banks, addr)
       /\ \A v \in MemValues :
             LET s == MapperSet(banks, addr, v)
                 t == MapperSet(bs, addr, v)
             IN /\ s.tag = t.tag
                /\ s.error = t.error
                /\ s.tag = "Ok"
                   => \A a \in MemAddresses : MapperGet(s.v, a) = MapperGet(t.v, a)

\* after a successful set on a read-write bank get returns the value at that address,
\* and after every successful set the other addresses read as before
SetThenGet ==
    (last'.call = "set" /\ last'.tag = "Ok")
    => /\ \A i \in ContainingBanks(banks, last'.addr) :
             banks[i].kind = "rw" => MapperGet(banks', last'.addr) = Ok(last'.value)
       /\ \A a \in MemAddresses \ {last'.addr} : MapperGet(banks', a) = MapperGet(banks, a)

\* C37: get and set of the mapper go to the one registered bank whose range contains
\* the address, at the offset addr - bank.min, whatever the order of registration; a
\* successful set on a read-write bank makes get return the value at that address and
\* leaves what is read at every other address
C37_MapperDelegation ==
    [](DelegatesToUniqueBank) /\ [](OrderIndependent) /\ [][SetThenGet]_vars

\* C37 witness: with a bank at address 0 registered first and a read-write bank at
\* address 1 second, 7 was written at address 1 and is read back from offset 0 of the
\* second bank
C37_Witness ==
    /\ last.call = "set"
    /\ last.tag = "Ok"
    /\ last.addr = 1
    /\ Len(banks) = 2
    /\ banks[1].range = [min |-> 0, max |-> 0]
    /\ banks[2].range = [min |-> 1, max |-> 1]
    /\ banks[2].kind = "rw"
    /\ banks[2].mem.cells = (0 :> 7)
    /\ MapperGet(banks, 1) = Ok(7)

\* C38: decode fails with a decode error on every word 5XYN and 9XYN whose low nibble N
\* is not 0, and does not treat it as 5XY0 / 9XY0
C38_SkipLowNibbleValidated ==
    (dec_out # NotDecoded /\ dec_word \div 4096 \in {5, 9} /\ NibbleN(dec_word) # 0)
    => /\ dec_out.tag = "Err"
       /\ dec_out.opcode = NoOpcode

====
